---- MODULE Spec2Model ----
(***************************************************************************)
(* A model of the path-relative positioning engine of GCARenderer: the    *)
(* landmark table and paths of a configuration, the landmark-pair to path *)
(* index resolution (_indexOnPath / _positionOnPath), the enclosing       *)
(* landmark query (getPosition), the nearest path point query             *)
(* (positionToPath), the current position / ROI state written by          *)
(* setPosition, and the pick event handler (_picker) of the 3D renderer.  *)
(*                                                                         *)
(* JavaScript values are modelled as follows.  Array indices are the      *)
(* 0-based JavaScript indices; TLA+ sequences are 1-based, so element i   *)
(* of a JavaScript array a is a[i + 1].  The value undefined, where it    *)
(* can stand in place of a number, is the number Undefined.  A real       *)
(* number is an exact fraction <<numerator, denominator>>.                *)
(***************************************************************************)
EXTENDS Integers, Sequences, FiniteSets, TLC

VARIABLES
  renderer,    \* "2D" (GCA2DRenderer) or "3D" (GCA3DRenderer)
  landmarks,   \* config.landmarks, after the sort done at initialisation
  curPath,     \* _curPath: index of the current path
  curPathIdx,  \* _curPathIdx: index of the position on the current path
  roiIdx,      \* _roiIdx: <<start, end>> indices of the ROI
  call,        \* the public call being answered, with its result
  load,        \* _file_load_cnt, the loads of loadModels and what they started
  disp,        \* the display groups of the 2D renderer and their objects
  pointer      \* _pointer, the pan of the canvas and what the press has done

vars ==
  <<renderer, landmarks, curPath, curPathIdx, roiIdx, call, load, disp, pointer>>

(***************************************************************************)
(* Bounds of the model.                                                    *)
(***************************************************************************)
MaxN == 4        \* number of points of the longest path
MaxFrac == 4     \* fractions range over -1/2 .. MaxFrac/2
MaxTol == 20     \* tolerances range over 0 .. MaxTol
MaxImages == 2   \* image model objects of the configuration
MaxObjs == 3     \* tracks, and markers with their labels, on display
MaxPtr == 4      \* pointer positions range over (0..MaxPtr) x (0..1)
MaxPan == 4      \* the pan of the canvas stays within -MaxPan..MaxPan

(***************************************************************************)
(* JavaScript undefined in a numeric position.  Every number the program  *)
(* stores or returns in such a position is >= 0.                           *)
(***************************************************************************)
Undefined == -1

IsDefined(x) == x # Undefined

\* v < w and v > w of JavaScript: false when an operand is undefined (NaN).
JsLt(v, w) == IsDefined(v) /\ IsDefined(w) /\ v < w
JsGt(v, w) == IsDefined(v) /\ IsDefined(w) /\ v > w
JsGe(v, w) == IsDefined(v) /\ IsDefined(w) /\ v >= w

(***************************************************************************)
(* Exact fractions.                                                        *)
(***************************************************************************)
Abs(x) == IF x < 0 THEN -x ELSE x

RECURSIVE Gcd(_, _)
Gcd(a, b) == IF b = 0 THEN a ELSE Gcd(b, a % b)

\* The fraction n / d in lowest terms; 0 / 0 (NaN) is <<0, 0>>.
Frac(n, d) ==
  IF d = 0 THEN <<(IF n > 0 THEN 1 ELSE IF n < 0 THEN -1 ELSE 0), 0>>
  ELSE LET g == Gcd(Abs(n), Abs(d))
           s == IF d < 0 THEN -1 ELSE 1
       IN  <<(s * n) \div g, (s * d) \div g>>

\* Math.floor(k * f) for an integer k and a fraction f with f[2] > 0.
FloorMul(k, f) == (k * f[1]) \div f[2]

Fractions == { Frac(k, 2) : k \in -1..MaxFrac }

(***************************************************************************)
(* The paths of the configuration.  Path i has id PathIds[i + 1] and      *)
(* PathN[i + 1] points; its points lie on a line of constant y.           *)
(***************************************************************************)
PathIds == <<7, 4>>
PathN == <<MaxN, MaxN - 2>>
PathY == <<0, 8>>

NumPaths == Len(PathIds)

PathIndices == 0..(NumPaths - 1)

Paths ==
  [pi \in PathIndices |->
     [id |-> PathIds[pi + 1],
      n |-> PathN[pi + 1],
      points |-> [pj \in 1..PathN[pi + 1] |-> <<3 * (pj - 1), PathY[pi + 1], 0>>]]]

\* config.paths[pi].points[pj]; undefined (<<>>) outside the array.
PathPoint(pi, pj) ==
  IF pj \in 0..(Paths[pi].n - 1) THEN Paths[pi].points[pj + 1] ELSE <<>>

(***************************************************************************)
(* The landmark table.  The configurations considered have the landmarks  *)
(* LmIds, each on one path or on both paths, at any positions on them.    *)
(***************************************************************************)
LmIds == <<"A", "B", "C">>

\* An id of no landmark.
MissingId == "Z"

QueryIds == { LmIds[k] : k \in 1..Len(LmIds) } \cup {MissingId}

\* The occurrences (paths and position lists) of a landmark on one path.
OnOnePath ==
  { [paths |-> <<PathIds[p]>>, position |-> <<i>>] :
      p \in 1..NumPaths, i \in 0..(MaxN - 1) }

\* The occurrences of a landmark on two paths (a branch point).
OnTwoPaths ==
  { [paths |-> <<PathIds[p], PathIds[q]>>, position |-> <<i, j>>] :
      p \in 1..NumPaths, q \in 1..NumPaths, i \in 0..(MaxN - 1), j \in 0..(MaxN - 1) }

\* A landmark's positions are indices of points of its paths.
WellFormed(o) ==
  \A k \in 1..Len(o.paths) :
    \E p \in 1..NumPaths :
      /\ o.paths[k] = PathIds[p]
      /\ o.position[k] < PathN[p]

Landmark(id, o) == [id |-> id, paths |-> o.paths, position |-> o.position]

\* The occurrences a landmark may have: on one path, or on two different paths.
LmOptions ==
  { o \in OnOnePath \cup OnTwoPaths :
      WellFormed(o) /\ (Len(o.paths) = 2 => o.paths[1] # o.paths[2]) }

\* The landmark tables as read from a configuration file, before the sort:
\* the first landmark may be a branch point, the others lie on one path.
RawConfigs ==
  { <<Landmark(LmIds[1], a), Landmark(LmIds[2], b), Landmark(LmIds[3], c)>> :
      a \in LmOptions,
      b \in LmOptions \cap OnOnePath,
      c \in LmOptions \cap OnOnePath }

\* Array.prototype.sort with the comparator a.position[0] - b.position[0]:
\* a stable sort, here by insertion from the left.
RECURSIVE InsertSorted(_, _)
InsertSorted(s, lmk) ==
  IF s = <<>> THEN <<lmk>>
  ELSE IF s[Len(s)].position[1] - lmk.position[1] > 0
       THEN Append(InsertSorted(SubSeq(s, 1, Len(s) - 1), lmk), s[Len(s)])
       ELSE Append(s, lmk)

RECURSIVE SortFrom(_, _, _)
SortFrom(cfg, k, acc) ==
  IF k > Len(cfg) THEN acc ELSE SortFrom(cfg, k + 1, InsertSorted(acc, cfg[k]))

_sortCfgLandmarks(cfg) == SortFrom(cfg, 1, <<>>)

\* config.pathIdToIdx[id] (3D, _findCfgPaths) and _pathIdxFromID(id) (2D).
RECURSIVE PathIdxScan(_, _)
PathIdxScan(id, i) ==
  IF i >= NumPaths THEN Undefined
  ELSE IF Paths[i].id = id THEN i ELSE PathIdxScan(id, i + 1)

_pathIdxFromID(id) == PathIdxScan(id, 0)

pathIdToIdx(id) ==
  IF \E i \in PathIndices : Paths[i].id = id
  THEN CHOOSE i \in PathIndices :
         Paths[i].id = id /\ \A j \in PathIndices : Paths[j].id = id => j <= i
  ELSE Undefined

\* _clamp without the test against the maximum.
_clampLowerOnly(v, mn, mx) == IF v < mn THEN mn ELSE v

_clamp(v, mn, mx) == IF v < mn THEN mn ELSE IF v > mx THEN mx ELSE v

(***************************************************************************)
(* _indexOnPath (3D) and _positionOnPath (2D): the index on a path which  *)
(* is the fraction dst from landmark lmid0 toward landmark lmid1.  The    *)
(* result is [ret |-> <<path index, index>>, err |-> an error was raised].*)
(***************************************************************************)

\* The loop that finds the table indices mi of the landmarks with the ids.
RECURSIVE FindLandmarks(_, _, _, _, _)
FindLandmarks(lms, lmid0, lmid1, li, mi) ==
  IF (mi[1] < 0 \/ mi[2] < 0) /\ li < Len(lms)
  THEN LET lmk == lms[li + 1]
           m0 == IF lmk.id = lmid0 THEN li ELSE mi[1]
           m1 == IF lmk.id = lmid1 THEN li ELSE mi[2]
       IN  FindLandmarks(lms, lmid0, lmid1, li + 1, <<m0, m1>>)
  ELSE mi

\* No shared path found yet.
NoMatch == [mpi |-> <<-1, -1>>, path |-> Undefined]

\* The inner loop with the comparison of the path ids left out.
RECURSIVE MatchInnerNoCompare(_, _, _, _, _)
MatchInnerNoCompare(mp0, mp1, li, ji, m) ==
  IF ji < Len(mp1)
  THEN MatchInnerNoCompare(mp0, mp1, li, ji + 1,
                           [mpi |-> <<li, ji>>, path |-> mp0[li + 1]])
  ELSE m

\* The inner for loop over the paths of the second landmark: it has no
\* break, so the last ji with mp0[li] === mp1[ji] is kept.
RECURSIVE MatchInner(_, _, _, _, _)
MatchInner(mp0, mp1, li, ji, m) ==
  IF ji < Len(mp1)
  THEN MatchInner(mp0, mp1, li, ji + 1,
                  IF mp0[li + 1] = mp1[ji + 1]
                  THEN [mpi |-> <<li, ji>>, path |-> mp0[li + 1]]
                  ELSE m)
  ELSE m

\* The outer while loop of the 3D renderer: it runs until a path index is set.
RECURSIVE MatchOuter3D(_, _, _, _)
MatchOuter3D(mp0, mp1, li, m) ==
  IF pathIdToIdx(m.path) = Undefined /\ li < Len(mp0)
  THEN MatchOuter3D(mp0, mp1, li + 1, MatchInner(mp0, mp1, li, 0, m))
  ELSE m

\* The outer while loop of the 2D renderer: it runs until a path id is set.
RECURSIVE MatchOuter2D(_, _, _, _)
MatchOuter2D(mp0, mp1, li, m) ==
  IF m.path = Undefined /\ li < Len(mp0)
  THEN MatchOuter2D(mp0, mp1, li + 1, MatchInner(mp0, mp1, li, 0, m))
  ELSE m

\* The index without the clamp to the path.
IndexBetweenNoClamp(lms, mi, mpi, path_idx, dst) ==
  LET i0 == lms[mi[1] + 1].position[mpi[1] + 1]
      i1 == lms[mi[2] + 1].position[mpi[2] + 1]
  IN  i0 + FloorMul(i1 - i0, dst)

\* index = i0 + Math.floor((i1 - i0) * dst), clamped to the path.
IndexBetween(lms, mi, mpi, path_idx, dst) ==
  LET i0 == lms[mi[1] + 1].position[mpi[1] + 1]
      i1 == lms[mi[2] + 1].position[mpi[2] + 1]
  IN  _clamp(i0 + FloorMul(i1 - i0, dst), 0, Paths[path_idx].n - 1)

NotFound == <<Undefined, Undefined>>

_indexOnPath(lms, lmid0, lmid1, dst) ==
  LET mi == FindLandmarks(lms, lmid0, lmid1, 0, <<-1, -1>>)
  IN  IF mi[1] > -1 /\ mi[2] > -1
      THEN LET m == MatchOuter3D(lms[mi[1] + 1].paths, lms[mi[2] + 1].paths, 0, NoMatch)
               path_idx == pathIdToIdx(m.path)
           IN  IF path_idx # Undefined
               THEN [ret |-> <<path_idx, IndexBetween(lms, mi, m.mpi, path_idx, dst)>>,
                     err |-> FALSE]
               ELSE [ret |-> NotFound, err |-> FALSE]
      ELSE [ret |-> NotFound, err |-> FALSE]

_positionOnPath(lms, lmid0, lmid1, dst) ==
  LET mi == FindLandmarks(lms, lmid0, lmid1, 0, <<-1, -1>>)
  IN  IF mi[1] > -1 /\ mi[2] > -1
      THEN LET m == MatchOuter2D(lms[mi[1] + 1].paths, lms[mi[2] + 1].paths, 0, NoMatch)
               path_index == _pathIdxFromID(m.path)
           IN  IF m.path # Undefined
               THEN IF path_index = Undefined
                    THEN [ret |-> NotFound, err |-> TRUE]  \* paths[undefined].n
                    ELSE [ret |-> <<path_index,
                                    IndexBetween(lms, mi, m.mpi, path_index, dst)>>,
                          err |-> FALSE]
               ELSE [ret |-> NotFound, err |-> FALSE]
      ELSE [ret |-> NotFound, err |-> FALSE]

\* The resolution of a landmark pair and fraction by the renderer r.
indexFromLandmarkPair(r, lms, lmid0, lmid1, dst) ==
  IF r = "3D" THEN _indexOnPath(lms, lmid0, lmid1, dst)
  ELSE _positionOnPath(lms, lmid0, lmid1, dst)

(***************************************************************************)
(* getPosition of the 3D renderer: the landmarks either side of the index *)
(* path_idx on the path with id path, and the proportional distance from  *)
(* the first to the second; <<>> is undefined.                             *)
(***************************************************************************)

\* The inner loop: the first j with path === lmk.paths[j], else -1.
RECURSIVE PathInLandmark(_, _, _)
PathInLandmark(path, lmk, j) ==
  IF j < Len(lmk.paths)
  THEN IF path = lmk.paths[j + 1] THEN j ELSE PathInLandmark(path, lmk, j + 1)
  ELSE -1

\* The loop over the landmark table; e is [lmks, pi], as in the source.
RECURSIVE EnclosingScan(_, _, _, _, _)
EnclosingScan(lms, path, path_idx, i, e) ==
  IF i < Len(lms)
  THEN LET lmk == lms[i + 1]
           pinp == PathInLandmark(path, lmk, 0)
           lower == pinp >= 0 /\ lmk.position[pinp + 1] <= path_idx
                      /\ (e.lmks[1] = Undefined \/ i > e.lmks[1])
           upper == pinp >= 0 /\ lmk.position[pinp + 1] >= path_idx
                      /\ (e.lmks[2] = Undefined \/ i < e.lmks[2])
       IN  EnclosingScan(lms, path, path_idx, i + 1,
             [lmks |-> <<IF lower THEN i ELSE e.lmks[1], IF upper THEN i ELSE e.lmks[2]>>,
              pi |-> <<IF lower THEN pinp ELSE e.pi[1], IF upper THEN pinp ELSE e.pi[2]>>])
  ELSE e

getPosition(lms, path, path_idx) ==
  LET e == EnclosingScan(lms, path, path_idx, 0,
                         [lmks |-> <<Undefined, Undefined>>, pi |-> <<-1, -1>>])
  IN  IF e.lmks[1] # Undefined /\ e.lmks[2] # Undefined
      THEN LET p0 == lms[e.lmks[1] + 1].position[e.pi[1] + 1]
               p1 == lms[e.lmks[2] + 1].position[e.pi[2] + 1]
           IN  <<e.lmks[1], e.lmks[2], Frac(path_idx - p0, p1 - p0)>>
      ELSE <<>>

(***************************************************************************)
(* positionToPath: the path point nearest to pos, if within tol.          *)
(***************************************************************************)
MAX_VALUE == 2147483647

DistSq(p, q) ==
  (p[1] - q[1]) * (p[1] - q[1]) + (p[2] - q[2]) * (p[2] - q[2])
    + (p[3] - q[3]) * (p[3] - q[3])

\* Math.sqrt, on the squares it is applied to here.
Sqrt(d2) == CHOOSE r \in 0..d2 : r * r = d2

\* The loops over the points with d2 <= fnd[2] as the test: the last of the
\* nearest points is kept.
RECURSIVE NearestScanLast(_, _, _, _)
NearestScanLast(pos, pi, pj, fnd) ==
  IF pi < NumPaths
  THEN IF pj < Paths[pi].n
       THEN LET d2 == DistSq(pos, Paths[pi].points[pj + 1])
            IN  NearestScanLast(pos, pi, pj + 1,
                                IF d2 <= fnd[3] THEN <<pi, pj, d2>> ELSE fnd)
       ELSE NearestScanLast(pos, pi + 1, 0, fnd)
  ELSE fnd

\* The loops over the points pj of the paths pi; fnd is [path, index, d2].
RECURSIVE NearestScan(_, _, _, _)
NearestScan(pos, pi, pj, fnd) ==
  IF pi < NumPaths
  THEN IF pj < Paths[pi].n
       THEN LET d2 == DistSq(pos, Paths[pi].points[pj + 1])
            IN  NearestScan(pos, pi, pj + 1, IF d2 < fnd[3] THEN <<pi, pj, d2>> ELSE fnd)
       ELSE NearestScan(pos, pi + 1, 0, fnd)
  ELSE fnd

WithinTolerance(d2, tol) == d2 < tol

positionToPath(pos, tol) ==
  LET fnd == NearestScan(pos, 0, 0, <<0, 0, MAX_VALUE>>)
  IN  IF WithinTolerance(fnd[3], tol) THEN <<fnd[1], fnd[2], Sqrt(fnd[3])>> ELSE <<>>

(***************************************************************************)
(* _updatePosition: the new <<curPath, curPathIdx, roiIdx, error raised>> *)
(* from the old roiIdx and the arguments.                                  *)
(***************************************************************************)

\* 3D: the three fields are assigned, then pd.points of the path is read.
_updatePosition3D(roi, path, pathIdx, roiIdxSrt, roiIdxEnd) ==
  <<path, pathIdx, <<roiIdxSrt, roiIdxEnd>>, path = Undefined>>

\* 2D: the path and index are assigned, then pd.n is read to clamp the ROI.
_updatePosition2D(roi, path, pathIdx, roiIdxSrt, roiIdxEnd) ==
  IF path = Undefined
  THEN <<path, pathIdx, roi, TRUE>>
  ELSE LET n == Paths[path].n
           srt == IF JsLt(roiIdxSrt, 0) THEN 0 ELSE roiIdxSrt
           end == IF JsGe(roiIdxEnd, n) THEN n - 1 ELSE roiIdxEnd
       IN  <<path, pathIdx, <<srt, end>>, FALSE>>

_updatePosition(r, roi, path, pathIdx, roiIdxSrt, roiIdxEnd) ==
  IF r = "3D" THEN _updatePosition3D(roi, path, pathIdx, roiIdxSrt, roiIdxEnd)
  ELSE _updatePosition2D(roi, path, pathIdx, roiIdxSrt, roiIdxEnd)

(***************************************************************************)
(* The pick event handler of the 3D renderer.  A string is the sequence   *)
(* of its pieces, the separator being a piece of its own: "path-1" is     *)
(* <<"path", "-", "1">>.  A point (THREE.Vector3) is a triple of          *)
(* integers; a position handed to the client is a triple of fractions,    *)
(* or <<>> when it is undefined.                                           *)
(***************************************************************************)
MaxHits == 4     \* length of the longest hit list of a pick event

nameSep == "-"
anatomyNamePrefix == <<"ana">>
pathNamePrefix == <<"path">>
landmarkNamePrefix == <<"lm">>
markerNamePrefix == <<"mm">>

\* name.split(nameSep): cur is the component being read, from piece k on.
RECURSIVE SplitFrom(_, _, _)
SplitFrom(name, k, cur) ==
  IF k > Len(name) THEN <<cur>>
  ELSE IF name[k] = nameSep THEN <<cur>> \o SplitFrom(name, k + 1, <<>>)
  ELSE SplitFrom(name, k + 1, Append(cur, name[k]))

\* The name of the object of type prefix and identifier id.
Name(prefix, id) == prefix \o <<nameSep>> \o id

\* The objects of the scene: two paths, two landmarks (one with a separator
\* in its identifier), a marker, a surface, a reference object, an object
\* with a name without separator and an object without name.  A hit refers
\* to an object by its place in this list; NoObj is the missing object.
Objects ==
  << [name |-> Name(pathNamePrefix, <<"1">>), geometry |-> "line"],
     [name |-> Name(pathNamePrefix, <<"2">>), geometry |-> "line"],
     [name |-> Name(landmarkNamePrefix, <<"7">>), geometry |-> "line"],
     [name |-> Name(landmarkNamePrefix, <<"7", nameSep, "b">>), geometry |-> "line"],
     [name |-> Name(markerNamePrefix, <<"7">>), geometry |-> "line"],
     [name |-> Name(anatomyNamePrefix, <<"s">>), geometry |-> "surface"],
     [name |-> Name(<<"ref">>, <<"0">>), geometry |-> "line"],
     [name |-> <<"path">>, geometry |-> "line"],
     [name |-> <<>>, geometry |-> "line"] >>

NoObj == 0

ObjectNames == { Objects[k].name : k \in 1..Len(Objects) }

\* The components of each name of the scene.
SplitName == [name \in ObjectNames |-> SplitFrom(name, 1, <<>>)]

split(name) == SplitName[name]

\* parts.join(nameSep)
RECURSIVE join(_)
join(parts) ==
  IF Len(parts) = 0 THEN <<>>
  ELSE IF Len(parts) = 1 THEN parts[1]
  ELSE parts[1] \o <<nameSep>> \o join(Tail(parts))

\* tynm: the type prefix and the rest of the name.
TypeAndNameOf ==
  [name \in ObjectNames |->
     LET tynm == split(name)
     IN  IF Len(tynm) > 2 THEN <<tynm[1], join(Tail(tynm))>> ELSE tynm]

\* The type and name with an unrecognised type prefix read as a path prefix.
TypeAndNameAsPath(name) ==
  LET tynm == TypeAndNameOf[name]
  IN  IF Len(tynm) > 1
         /\ tynm[1] \notin {pathNamePrefix, landmarkNamePrefix,
                            markerNamePrefix, anatomyNamePrefix}
      THEN <<pathNamePrefix, tynm[2]>>
      ELSE tynm

TypeAndName(name) == TypeAndNameOf[name]

\* Element i of a JavaScript array of numbers.
At(a, i) == IF i \in 0..(Len(a) - 1) THEN a[i + 1] ELSE Undefined

Add(p, q) == <<p[1] + q[1], p[2] + q[2], p[3] + q[3]>>
Sub(p, q) == <<p[1] - q[1], p[2] - q[2], p[3] - q[3]>>
Dot(p, q) == p[1] * q[1] + p[2] * q[2] + p[3] * q[3]

\* p.divideScalar(s), then [p.x, p.y, p.z]
divideScalar(p, s) == <<Frac(p[1], s), Frac(p[2], s), Frac(p[3], s)>>

FracAdd(f, g) == Frac(f[1] * g[2] + g[1] * f[2], f[2] * g[2])
FracScale(k, f) == Frac(k * f[1], f[2])
FracFloor(f) == f[1] \div f[2]

\* The barycentric coordinates of p in the triangle t; <<>> is undefined.
_baryCoords(t, p) ==
  LET v0 == Sub(t[2], t[1])
      v1 == Sub(t[3], t[1])
      v2 == Sub(p, t[1])
      d00 == Dot(v0, v0)
      d01 == Dot(v0, v1)
      d11 == Dot(v1, v1)
      d20 == Dot(v2, v0)
      d21 == Dot(v2, v1)
      d == d00 * d11 - d01 * d01
      b1 == Frac(d11 * d20 - d01 * d21, d)
      b2 == Frac(d00 * d21 - d01 * d20, d)
  IN  IF d > 0
      THEN <<FracAdd(Frac(1, 1), FracAdd(FracScale(-1, b1), FracScale(-1, b2))),
             b1, b2>>
      ELSE <<>>

\* config.anatomy_surfaces: one surface, with a path index for each vertex.
AnatomySurfaces == << [id |-> <<"s">>, mapping |-> <<1, 5, 2, 0>>] >>

RECURSIVE AnatomyScan(_, _)
AnatomyScan(id, i) ==
  IF i > Len(AnatomySurfaces) THEN <<>>
  ELSE IF AnatomySurfaces[i].id = id THEN <<AnatomySurfaces[i]>>
  ELSE AnatomyScan(id, i + 1)

\* The anatomy configuration with the given id, as <<an>>; <<>> is undefined.
getAnatomyConfig(id) == AnatomyScan(id, 1)

\* The geometry of a surface: vertices 0..3, face 0 a right triangle and
\* face 1 a triangle of three vertices on one line.
SurfaceGeometry ==
  [index |-> <<0, 1, 2, 0, 1, 3>>,
   position |-> <<0, 0, 0, 4, 0, 0, 0, 4, 0, 8, 0, 0>>]

\* The geometry of an object that is not a surface (no index).
LineGeometry == [index |-> <<>>, position |-> <<>>]

\* An object refers to its geometry: that of the surface or of a line.
Geometry(g) == IF g = "surface" THEN SurfaceGeometry ELSE LineGeometry

Hit(obj, point, faceIndex) ==
  [object |-> obj, point |-> point, faceIndex |-> faceIndex]

\* The state of the scan of the hit list.
PickStart ==
  [pth |-> -1, mkm |-> -1, ana |-> -1, cnt |-> <<>>, objA |-> <<>>,
   typA |-> <<>>, namA |-> <<>>, posA |-> <<>>, triA |-> <<>>]

\* A new entry for the hit, with the triangle index tri.
PushEntry(a, hit, tynm, tri) ==
  [a EXCEPT !.cnt = Append(@, 1), !.objA = Append(@, hit.object),
            !.typA = Append(@, tynm[1]), !.namA = Append(@, tynm[2]),
            !.posA = Append(@, hit.point), !.triA = Append(@, tri)]

\* ++(cnt[i]) alone, the point of the hit not added.
AccumulateCountOnly(a, i, hit) == [a EXCEPT !.cnt[i + 1] = @ + 1]

\* ++(cnt[i]); posA[i].add(hit.point)
Accumulate(a, i, hit) ==
  [a EXCEPT !.cnt[i + 1] = @ + 1, !.posA[i + 1] = Add(@, hit.point)]

\* The body of the loop over the hit list.  typA[idx.pth] is undefined and
\* equal to no prefix while idx.pth is -1.
PickHit(a, hit) ==
  LET obj == hit.object
      name == IF obj = NoObj THEN <<>> ELSE Objects[obj].name
      tynm == TypeAndName(name)
  IN  IF ~(obj # NoObj /\ name # <<>>) THEN a
      ELSE IF ~(Len(split(name)) > 1) THEN a
      ELSE IF tynm[1] = pathNamePrefix
      THEN IF a.pth < 0
           THEN [PushEntry(a, hit, tynm, 0) EXCEPT !.pth = Len(a.objA)]
           ELSE IF tynm[2] = a.namA[a.pth + 1] THEN Accumulate(a, a.pth, hit)
           ELSE a
      ELSE IF tynm[1] = landmarkNamePrefix \/ tynm[1] = markerNamePrefix
      THEN IF a.mkm < 0
           THEN [PushEntry(a, hit, tynm, 0) EXCEPT !.mkm = Len(a.objA)]
           ELSE IF /\ a.pth >= 0
                   /\ tynm[1] = a.typA[a.pth + 1]
                   /\ tynm[2] = a.namA[a.pth + 1]
                THEN Accumulate(a, a.pth, hit)
           ELSE a
      ELSE IF tynm[1] = anatomyNamePrefix
      THEN IF a.ana < 0
           THEN [PushEntry(a, hit, tynm, hit.faceIndex) EXCEPT !.ana = Len(a.objA)]
           ELSE a
      ELSE a

\* The loop over the hit list run from its last hit to its first.
RECURSIVE PickScanBackwards(_, _, _)
PickScanBackwards(a, hitlist, i) ==
  IF i >= Len(hitlist) THEN a
  ELSE PickScanBackwards(PickHit(a, hitlist[Len(hitlist) - i]), hitlist, i + 1)

RECURSIVE PickScan(_, _, _)
PickScan(a, hitlist, i) ==
  IF i >= Len(hitlist) THEN a
  ELSE PickScan(PickHit(a, hitlist[i + 1]), hitlist, i + 1)

\* A point as a position.
AsPosition(p) == <<Frac(p[1], 1), Frac(p[2], 1), Frac(p[3], 1)>>

\* Vertex v of the position array p.
Vertex(p, v) == <<At(p, v), At(p, v + 1), At(p, v + 2)>>

\* The position of entry i of an anatomy surface with a mapping: the point
\* of the current path at the interpolated index.  err: tw is undefined.
AnatomyPosition(a, i, an, cur) ==
  LET g == Geometry(Objects[a.objA[i + 1]].geometry)
      t == a.triA[i + 1] * 3
      ti == <<At(g.index, t), At(g.index, t + 1), At(g.index, t + 2)>>
      p == g.position
      mp == [j \in 1..3 |-> At(an.mapping, At(ti, i))]
      tv == [j \in 1..3 |-> Vertex(p, ti[j] * 3)]
      tw == _baryCoords(tv, a.posA[i + 1])
      pi == FracFloor(FracAdd(FracScale(mp[1], tw[1]),
                      FracAdd(FracScale(mp[2], tw[2]), FracScale(mp[3], tw[3]))))
      path == Paths[cur]
  IN  IF tw = <<>> THEN [pos |-> <<>>, err |-> TRUE]
      ELSE IF ~IsDefined(mp[1]) THEN [pos |-> <<>>, err |-> FALSE]
      ELSE [pos |-> AsPosition(PathPoint(cur, _clamp(pi, 0, path.n - 1))),
            err |-> FALSE]

\* The body of the loop over the entries.
ResolveEntry(a, i, cur) ==
  IF a.typA[i + 1] = anatomyNamePrefix
  THEN LET g == Geometry(Objects[a.objA[i + 1]].geometry)
           an == getAnatomyConfig(a.namA[i + 1])
       IN  IF an # <<>> /\ g.index # <<>> /\ g.position # <<>>
           THEN AnatomyPosition(a, i, an[1], cur)
           ELSE [pos |-> AsPosition(a.posA[i + 1]), err |-> FALSE]
  ELSE [pos |-> divideScalar(a.posA[i + 1], a.cnt[i + 1]), err |-> FALSE]

\* The positions of the entries from i on; err: an entry raised a TypeError.
RECURSIVE ResolveFrom(_, _, _)
ResolveFrom(a, i, cur) ==
  IF i >= Len(a.objA) THEN [posA |-> <<>>, err |-> FALSE]
  ELSE LET r == ResolveEntry(a, i, cur)
           rest == ResolveFrom(a, i + 1, cur)
       IN  IF r.err THEN [posA |-> <<>>, err |-> TRUE]
           ELSE [posA |-> <<r.pos>> \o rest.posA, err |-> rest.err]

\* _picker(ev) with the current path cur: fn is the list of the arguments
\* (objA, typA, namA, posA) of the one call of the client function, or <<>>
\* when it is not called.
_picker(ev, cur) ==
  IF ev.type # "pick" THEN [fn |-> <<>>, err |-> FALSE]
  ELSE LET a == PickScan(PickStart, ev.hitlist, 0)
           r == ResolveFrom(a, 0, cur)
       IN  IF ~(Len(a.objA) > 0) THEN [fn |-> <<>>, err |-> FALSE]
           ELSE IF r.err THEN [fn |-> <<>>, err |-> TRUE]
           ELSE [fn |-> <<a.objA, a.typA, a.namA, r.posA>>, err |-> FALSE]

(***************************************************************************)
(* The domain maps of the 2D renderer.  The map of a path is an encoded   *)
(* object: a domain of lines of column intervals (relative to kol1) over  *)
(* the rectangle kol1..lastkl by line1..lastln, and the values of the     *)
(* columns of the intervals, line after line; a value is an index of the  *)
(* path.  A coordinate is a fraction.                                      *)
(***************************************************************************)
MaxCoord == 4    \* coordinates range over -(MaxCoord + 1)/2 .. (2 MaxCoord + 1)/2

\* Math.trunc(f)
Trunc(f) == IF f[1] >= 0 THEN f[1] \div f[2] ELSE -((-f[1]) \div f[2])

\* path.mapping of path pi: two lines, the first with a gap between its two
\* intervals; the value of one column is n, not an index of the path.
Mapping(pi) ==
  [object |->
     [domain |-> [kol1 |-> -1, lastkl |-> 3, line1 |-> 0, lastln |-> 1,
                  intvlines |-> << << <<0, 1>>, <<3, 4>> >>, << <<1, 2>> >> >>],
      values |-> [value_line_indices |-> <<0, 4>>,
                  values |-> <<0, 1, Paths[pi].n - 1, 1, Paths[pi].n, 0>>]]]

\* The loop over the intervals without the test of the end of the interval.
RECURSIVE IntervalScanNoEnd(_, _, _, _)
IntervalScanNoEnd(ivln, x, i, vidx) ==
  IF ~(i < Len(ivln)) THEN <<FALSE, vidx>>
  ELSE LET iv == ivln[i + 1]
       IN  IF x >= iv[1] THEN <<TRUE, vidx + (x - iv[1])>>
           ELSE IntervalScanNoEnd(ivln, x, i + 1, vidx + (iv[2] - iv[1] + 1))

\* The loop over the intervals that does not count the intervals passed.
RECURSIVE IntervalScanNoSkip(_, _, _, _)
IntervalScanNoSkip(ivln, x, i, vidx) ==
  IF ~(i < Len(ivln)) THEN <<FALSE, vidx>>
  ELSE LET iv == ivln[i + 1]
       IN  IF x >= iv[1] /\ x <= iv[2] THEN <<TRUE, vidx + (x - iv[1])>>
           ELSE IntervalScanNoSkip(ivln, x, i + 1, vidx)

\* The loop over the intervals of a line: <<inside, vidx>>.
RECURSIVE IntervalScan(_, _, _, _)
IntervalScan(ivln, x, i, vidx) ==
  IF ~(i < Len(ivln)) THEN <<FALSE, vidx>>
  ELSE LET iv == ivln[i + 1]
       IN  IF x >= iv[1] /\ x <= iv[2] THEN <<TRUE, vidx + (x - iv[1])>>
           ELSE IntervalScan(ivln, x, i + 1, vidx + (iv[2] - iv[1] + 1))

\* The value of the map at (x, y), or undefined.
_getObjValue(map, x, y) ==
  LET dom == map.object.domain
      val == map.object.values
      xx == Trunc(x) - dom.kol1
      yy == Trunc(y) - dom.line1
      r == IntervalScan(dom.intvlines[yy + 1], xx, 0, val.value_line_indices[yy + 1])
  IN  IF yy >= 0 /\ yy <= dom.lastln - dom.line1 /\ xx >= 0 /\ xx <= dom.lastkl - dom.kol1
      THEN (IF r[1] THEN At(val.values, r[2]) ELSE Undefined)
      ELSE Undefined

\* mapPointToMidline(p) with the current path cur: the point <<x, y, i>> of
\* the midline, or <<>> (undefined).  err: cp or b is undefined.
mapPointToMidline(cur, p) ==
  IF ~IsDefined(cur) THEN [ret |-> <<>>, err |-> TRUE]
  ELSE LET idx == _getObjValue(Mapping(cur), p[1], p[2])
           b == PathPoint(cur, idx)
       IN  IF ~IsDefined(idx) THEN [ret |-> <<>>, err |-> FALSE]
           ELSE IF b = <<>> THEN [ret |-> <<>>, err |-> TRUE]
           ELSE [ret |-> <<b[1], b[2], idx>>, err |-> FALSE]

(***************************************************************************)
(* mapIntervalToMidline of the 2D renderer: the landmarks are looked up   *)
(* by the id of their first anatomy, and the indices are computed from    *)
(* the landmarks' position arrays.                                         *)
(***************************************************************************)
\* config.landmarks[li].anatomy[0].id of the landmark with the id lmid.
AnatomyId(lmid) ==
  CASE lmid = "A" -> "GCA:a"
    [] lmid = "B" -> "GCA:b"
    [] lmid = "C" -> "GCA:c"
    [] OTHER -> "GCA:z"

AnatomyIds == { AnatomyId(id) : id \in QueryIds }

\* The index in the landmark table found by the loop from li, or Undefined.
RECURSIVE AnatScan(_, _, _)
AnatScan(lmks, id, li) ==
  IF ~(li < Len(lmks)) THEN Undefined
  ELSE IF AnatomyId(lmks[li + 1].id) = id THEN li
       ELSE AnatScan(lmks, id, li + 1)

landmarkFromAnatID(lmks, id) == AnatScan(lmks, id, 0)

\* The number that is not a number.
NaN == -1000

\* The number an array converts to: its element when it has one element.
ToNumber(a) == IF Len(a) = 0 THEN 0 ELSE IF Len(a) = 1 THEN a[1] ELSE NaN

\* Number(a0) + Math.floor(f * (a1 - a0)) of two position arrays.
IntervalIndex(a0, a1, f) ==
  IF ToNumber(a0) = NaN \/ ToNumber(a1) = NaN THEN NaN
  ELSE ToNumber(a0) + FloorMul(ToNumber(a1) - ToNumber(a0), f)

\* The loop over the four landmarks from i: <<lmp, l0>>, lmp the position
\* arrays or <<>> for undefined, l0 the index of the last landmark kept.
RECURSIVE IntervalScanLandmarks(_, _, _, _, _)
IntervalScanLandmarks(lmks, lmk, i, lmp, l0) ==
  IF ~(i < 4) THEN <<lmp, l0>>
  ELSE LET l1 == landmarkFromAnatID(lmks, lmk[i + 1])
       IN  IF l1 = Undefined THEN <<<<>>, l0>>
           ELSE IF i > 0 /\ lmks[l0 + 1].paths[1] # lmks[l1 + 1].paths[1]
                THEN <<<<>>, l0>>
                ELSE IntervalScanLandmarks(lmks, lmk, i + 1,
                                           Append(lmp, lmks[l1 + 1].position), l1)

\* The result [path id, start index, end index], or <<>> for undefined.
mapIntervalToMidline(lmks, lmk0, lmk1, f0, lmk2, lmk3, f1) ==
  LET r == IntervalScanLandmarks(lmks, <<lmk0, lmk1, lmk2, lmk3>>, 0, <<>>, Undefined)
      lmp == r[1]
      l0 == r[2]
  IN  IF lmp # <<>>
      THEN <<lmks[l0 + 1].paths[1],
             IntervalIndex(lmp[1], lmp[2], f0),
             IntervalIndex(lmp[3], lmp[4], f1)>>
      ELSE <<>>

(***************************************************************************)
(* The loading of the files of the 2D renderer.  ld is the part of the    *)
(* renderer that loading touches: cnt is _file_load_cnt, created counts   *)
(* the runs of _createVisualisation, called the calls of post_load_fn,    *)
(* and fn tells whether a post_load_fn was given to the constructor.      *)
(***************************************************************************)
\* _startLoad setting the counter to 0.
_startLoadZero(ld) == [ld EXCEPT !.cnt = 0]

_startLoad(ld) == [ld EXCEPT !.cnt = 1]

_preLoad(ld) == [ld EXCEPT !.cnt = @ + 1]

_postLoad(ld) ==
  LET cnt == ld.cnt - 1
  IN  IF cnt <= 0
      THEN [ld EXCEPT !.cnt = cnt,
                      !.created = @ + 1,
                      !.called = IF ld.fn THEN @ + 1 ELSE @]
      ELSE [ld EXCEPT !.cnt = cnt]

_endLoad(ld) == _postLoad(ld)

\* The loads that loadModels starts, in its order: the icons (pin and
\* cursor), the images of the configuration, and the spline and the mapping
\* of every path.
NumIcons == 2

NumLoads(images) == NumIcons + images + 2 * NumPaths

\* _loadSvg and _loadImage hand the file to a callback; _loadJson sends a
\* synchronous request, whose handler has run when send() returns.
IsJson(l, images) == l > NumIcons + images

\* _loadSvg: its callback has no test for an error, so a file that cannot be
\* loaded and is handed to the callback as null is treated as loaded.
IsSvg(l) == l <= NumIcons

\* What becomes of a load within loadModels: its callback runs at once
\* ("now"), it fails at once ("fail"), its callback runs at once with null
\* for the file ("null"), or it is left for later ("later").
Outcomes(images) ==
  { o \in [1..NumLoads(images) -> {"now", "fail", "null", "later"}] :
      \A l \in 1..NumLoads(images) :
        /\ IsJson(l, images) => o[l] # "later"
        /\ o[l] = "null" => IsSvg(l) }

\* _loadSvg, _loadImage, _loadJson for the loads from l on: _preLoad, then
\* on_load and _postLoad if the file is there at once.
RECURSIVE LoadFrom(_, _, _)
LoadFrom(ld, o, l) ==
  IF l > Len(o) THEN ld
  ELSE LET pre == _preLoad(ld)
       IN  LoadFrom(IF o[l] \in {"now", "null"} THEN _postLoad(pre) ELSE pre, o, l + 1)

StatusOf(outcome) ==
  IF outcome = "now" THEN "done"
  ELSE IF outcome = "fail" THEN "failed"
  ELSE IF outcome = "null" THEN "null"
  ELSE "pending"

\* loadModels(): _startLoad, the loads, _endLoad.
loadModels(ld, o) ==
  [_endLoad(LoadFrom(_startLoad(ld), o, 1)) EXCEPT
     !.started = TRUE,
     !.status = [l \in 1..Len(o) |-> StatusOf(o[l])]]

\* The renderer before loadModels.
NoLoad ==
  [cnt |-> 0, created |-> 0, called |-> 0, fn |-> FALSE, images |-> 0,
   started |-> FALSE, status |-> <<>>]

(***************************************************************************)
(* The display groups of the 2D renderer.  d is the part of the renderer  *)
(* that the display operations touch: version tells the code ("js" is     *)
(* js/GCA2DRenderer.js, whose findDispObj and removeMarker the class of   *)
(* version 2.1.0 shares; "2.2.1" is the class with tracks), model, tracks,*)
(* landmarks and markers are the _objects of the fabric groups, and       *)
(* trackIds are the keys of _tracks.  An object is known by its gca_id,   *)
(* gca_group and gca_type.                                                 *)
(***************************************************************************)
DispVersions == {"js", "2.2.1"}

\* A gca_id, gca_group or gca_type that is undefined.
NoId == "undefined"

DispObj(id, grp, type) == [gca_id |-> id, gca_group |-> grp, gca_type |-> type]

\* _makePath(pts, id, prop)
_makePath(id) == DispObj(id, "PATHS", NoId)

\* _makeMarker(key, pos, id, grp, prop): version 2.2.1 sets gca_type.
_makeMarker(version, id, grp) ==
  DispObj(id, grp, IF version = "2.2.1" THEN "MARKER" ELSE NoId)

\* _makeLabel(pos, txt, id, grp, prop)
_makeLabel(version, id, grp) ==
  DispObj(id, grp, IF version = "2.2.1" THEN "LABEL" ELSE NoId)

\* The group of the labels of landmarks and markers.
LabelGroup(version, grp) ==
  IF version = "2.2.1" THEN grp
  ELSE IF grp = "MARKERS" THEN "MARKER_LABELS" ELSE "LANDMARK_LABELS"

GcaGroups ==
  {"REFERENCE_IMAGES", "ANATOMY_IMAGES", "PATHS", "ROI", "CURSOR", "TRACKS",
   "LANDMARKS", "LANDMARK_LABELS", "MARKERS", "MARKER_LABELS", "BLOOM"}

\* _mapGCAGrpToDispGrp[gca_grp] (_mapGroupsGCAToDisp in "js", where a group is
\* entered when its objects are made): the name of a field of d, or NoId.
DispGroupOf(d, gca_grp) ==
  IF d.version = "2.2.1"
  THEN CASE gca_grp \in {"REFERENCE_IMAGES", "ANATOMY_IMAGES", "PATHS", "ROI", "CURSOR"}
              -> "model"
         [] gca_grp = "TRACKS" -> "tracks"
         [] gca_grp = "LANDMARKS" -> "landmarks"
         [] gca_grp = "MARKERS" -> "markers"
         [] OTHER -> NoId
  ELSE CASE gca_grp \in {"REFERENCE_IMAGES", "ANATOMY_IMAGES"}
              /\ (\E k \in 1..Len(d.model) : d.model[k].gca_group = gca_grp) -> "model"
         [] gca_grp \in {"PATHS", "ROI", "CURSOR"} -> "model"
         [] gca_grp \in {"LANDMARKS", "LANDMARK_LABELS"} -> "landmarks"
         [] gca_grp \in {"MARKERS", "MARKER_LABELS"} -> "markers"
         [] OTHER -> NoId

\* d_grp._objects
ObjectsOf(d, grp) ==
  CASE grp = "model" -> d.model
    [] grp = "tracks" -> d.tracks
    [] grp = "landmarks" -> d.landmarks
    [] grp = "markers" -> d.markers
    [] OTHER -> <<>>

\* The test of an item common to the versions of findDispObj.
IdMatches(itm, gca_id) ==
  /\ itm.gca_id # NoId
  /\ itm.gca_group # NoId
  /\ (gca_id = NoId \/ gca_id = itm.gca_id)

\* The loop of findDispObj of "js" from i: the index of the first item of the
\* group and id, or Undefined.
RECURSIVE FindFirst(_, _, _, _)
FindFirst(objs, gca_grp, gca_id, i) ==
  IF ~(i < Len(objs)) THEN Undefined
  ELSE IF IdMatches(objs[i + 1], gca_id) /\ gca_grp = objs[i + 1].gca_group THEN i
       ELSE FindFirst(objs, gca_grp, gca_id, i + 1)

\* The loop of findDispObj of 2.2.1 from i: it ends at the first item of the
\* id, which is the result if it is of the group.
RECURSIVE FindFirstOfId(_, _, _, _)
FindFirstOfId(objs, gca_grp, gca_id, i) ==
  IF ~(i < Len(objs)) THEN Undefined
  ELSE IF IdMatches(objs[i + 1], gca_id)
       THEN IF objs[i + 1].gca_group = gca_grp THEN i ELSE Undefined
       ELSE FindFirstOfId(objs, gca_grp, gca_id, i + 1)

\* findDispObj(gca_grp, gca_id): <<d_grp, d_itm>>, d_itm the index of the
\* item in the group or Undefined.
findDispObj(d, gca_grp, gca_id) ==
  LET d_grp == DispGroupOf(d, gca_grp)
  IN  IF d_grp = NoId THEN <<d_grp, Undefined>>
      ELSE IF d.version = "2.2.1"
           THEN <<d_grp, FindFirstOfId(ObjectsOf(d, d_grp), gca_grp, gca_id, 0)>>
           ELSE <<d_grp, FindFirst(ObjectsOf(d, d_grp), gca_grp, gca_id, 0)>>

\* findAllDispObj(gca_grp, gca_id) within the group d_grp: the indices of the
\* items of the group and id.
findAllDispObj(d, gca_grp, gca_id) ==
  LET objs == ObjectsOf(d, DispGroupOf(d, gca_grp))
  IN  { i \in 0..(Len(objs) - 1) :
          IdMatches(objs[i + 1], gca_id) /\ gca_grp = objs[i + 1].gca_group }

\* fabric.Group.remove of the items at the indices is: the others, in order.
RECURSIVE RemoveAt(_, _, _)
RemoveAt(objs, is, i) ==
  IF ~(i < Len(objs)) THEN <<>>
  ELSE (IF i \in is THEN <<>> ELSE <<objs[i + 1]>>) \o RemoveAt(objs, is, i + 1)

\* addTrack(track_id, path_id, start_idx, end_idx, col, dist, ang) of 2.2.1:
\* the track is made of the points start_idx..end_idx, put in order and cut
\* to the path.
addTrack(d, track_id, path_id, start_idx, end_idx) ==
  LET path_idx == _pathIdxFromID(path_id)
  IN  IF path_idx # Undefined
      THEN LET n == Paths[path_idx].n
               lo == IF start_idx > end_idx THEN end_idx ELSE start_idx
               hi == IF start_idx > end_idx THEN start_idx ELSE end_idx
               first == IF lo < 0 THEN 0 ELSE lo
               last == IF hi >= n THEN n - 1 ELSE hi
               trk == [gca_id |-> track_id, gca_group |-> "TRACKS", gca_type |-> NoId,
                       pts |-> IF first <= last THEN last - first + 1 ELSE 0]
           IN  [d EXCEPT !.trackIds = @ \cup {track_id},
                         !.tracks = Append(@, trk)]
      ELSE d

\* removeTrack(track_id) of 2.2.1
removeTrack(d, track_id) ==
  LET trk == findDispObj(d, "TRACKS", track_id)
  IN  [d EXCEPT !.tracks = RemoveAt(@, {trk[2]}, 0)]

\* addMarker(id, pos, txt, props), given whether mapPointToMidline(pos) is
\* defined and whether txt is.
addMarker(d, id, mapped, txt) ==
  IF mapped
  THEN LET mrk == _makeMarker(d.version, id, "MARKERS")
           lbl == _makeLabel(d.version, id, LabelGroup(d.version, "MARKERS"))
       IN  [d EXCEPT !.markers = IF txt THEN @ \o <<mrk, lbl>> ELSE Append(@, mrk)]
  ELSE d

\* removeMarker(id) removing one marker and one label.
removeMarkerFirst(d, id) ==
  LET mrk == findDispObj(d, "MARKERS", id)
      lbl == findDispObj(d, "MARKER_LABELS", id)
  IN  [d EXCEPT !.markers =
         RemoveAt(@, (IF mrk[1] # NoId THEN {mrk[2]} ELSE {})
                       \cup (IF lbl[1] # NoId THEN {lbl[2]} ELSE {}), 0)]

\* removeMarker(id): of findAllDispObj in 2.2.1, of findDispObj in "js".
removeMarker(d, id) ==
  IF d.version = "2.2.1"
  THEN [d EXCEPT !.markers = RemoveAt(@, findAllDispObj(d, "MARKERS", id), 0)]
  ELSE removeMarkerFirst(d, id)

\* mapPointToMidline(p) of 2.2.1, which tests the point found.
mapPointToMidlineTested(cur, p) ==
  IF ~IsDefined(cur) THEN [ret |-> <<>>, err |-> TRUE]
  ELSE LET idx == _getObjValue(Mapping(cur), p[1], p[2])
           pp == IF IsDefined(idx) THEN PathPoint(cur, idx) ELSE <<>>
       IN  IF pp = <<>> THEN [ret |-> <<>>, err |-> FALSE]
           ELSE [ret |-> <<pp[1], pp[2], idx>>, err |-> FALSE]

\* The groups after _createVisualisation: the reference image if there is
\* one, the paths, the ROI on the current path and the cursor in the model
\* group, and a marker and a label for every landmark.
RECURSIVE LandmarkObjs(_, _, _)
LandmarkObjs(version, lmks, il) ==
  IF ~(il < Len(lmks)) THEN <<>>
  ELSE <<_makeMarker(version, lmks[il + 1].id, "LANDMARKS"),
         _makeLabel(version, lmks[il + 1].id, LabelGroup(version, "LANDMARKS"))>>
       \o LandmarkObjs(version, lmks, il + 1)

_createVisualisation(version, image, lmks, cur) ==
  [version |-> version,
   model |-> (IF image THEN <<DispObj("ref", "REFERENCE_IMAGES", NoId)>> ELSE <<>>)
             \o [pi \in 1..NumPaths |-> _makePath(ToString(Paths[pi - 1].id))]
             \o <<_makePath(ToString(Paths[cur].id))>>
             \o <<DispObj(NoId, "CURSOR", NoId)>>,
   tracks |-> <<>>,
   landmarks |-> LandmarkObjs(version, lmks, 0),
   markers |-> <<>>,
   trackIds |-> {}]

\* The renderer before the visualisation is created.
NoDisp ==
  [version |-> "js", model |-> <<>>, tracks |-> <<>>, landmarks |-> <<>>,
   markers |-> <<>>, trackIds |-> {}]

(***************************************************************************)
(* The pointer of the 2D renderer.  ptr is _pointer (button, drag,         *)
(* position) with what its handlers touch besides: pan is the translation  *)
(* of the viewport of the canvas, which relativePan moves, panned tells    *)
(* whether relativePan has been called since the last mouse down, and fn   *)
(* tells whether a pick_fn was given to the constructor.                   *)
(***************************************************************************)
drag_threshold_start == 9
drag_threshold_end == 1

NoPointer ==
  [button |-> 0, drag |-> FALSE, position |-> <<0, 0>>,
   pan |-> <<0, 0>>, panned |-> FALSE, fn |-> FALSE]

_onMouseDown(ptr, button, p) ==
  [ptr EXCEPT !.button = button, !.drag = FALSE, !.position = p, !.panned = FALSE]

\* The drag state after a move by del.
DragAfter(ptr, del) ==
  LET del2 == (del[1] * del[1]) + (del[2] * del[2])
  IN  IF del2 > drag_threshold_start THEN TRUE
      ELSE IF del2 < drag_threshold_end THEN FALSE
      ELSE ptr.drag

_onMouseMove(ptr, p) ==
  IF ptr.button = 1
  THEN LET del == <<p[1] - ptr.position[1], p[2] - ptr.position[2]>>
           drag == DragAfter(ptr, del)
       IN  [ptr EXCEPT !.drag = drag,
                       !.pan = IF drag THEN <<@[1] + del[1], @[2] + del[2]>> ELSE @,
                       !.panned = @ \/ drag,
                       !.position = p]
  ELSE ptr

\* The point handed to pick_fn by a mouse up at p, <<>> if it is not called:
\* p through the inverse of the viewport transform (of zoom 1).
PickedAt(ptr, p) ==
  IF ptr.button = 1 /\ ~ptr.drag /\ ptr.fn
  THEN <<p[1] - ptr.pan[1], p[2] - ptr.pan[2]>>
  ELSE <<>>

_onMouseUp(ptr) == [ptr EXCEPT !.drag = FALSE, !.button = 0]

(***************************************************************************)
(* The state machine.  A public operation runs to completion in one step  *)
(* and leaves its result in call; Return hands the result to the caller.  *)
(***************************************************************************)
Idle == [op |-> "idle", args |-> <<>>, ret |-> <<>>, err |-> FALSE]

Renderers == {"2D", "3D"}

\* The state after construction and init(cfg) with the landmarks cfg.
InitWith(configs) ==
  /\ renderer \in Renderers
  /\ landmarks \in { _sortCfgLandmarks(cfg) : cfg \in configs }
  /\ curPath = 0
  /\ curPathIdx = 0
  /\ roiIdx = <<0, 0>>
  /\ call = Idle
  /\ load = NoLoad
  /\ disp = NoDisp
  /\ pointer = NoPointer

curState == <<curPath, curPathIdx, roiIdx>>

\* A call of _indexOnPath / _positionOnPath.
IndexOnPath ==
  /\ call = Idle
  /\ \E lmid0 \in QueryIds, lmid1 \in QueryIds, dst \in Fractions :
       LET r == indexFromLandmarkPair(renderer, landmarks, lmid0, lmid1, dst)
       IN  call' = [op |-> "indexOnPath", args |-> <<lmid0, lmid1, dst>>,
                    ret |-> r.ret, err |-> r.err]
  /\ UNCHANGED
       <<renderer, landmarks, curPath, curPathIdx, roiIdx, load, disp, pointer>>

\* A call of getPosition(path, path_idx) of the 3D renderer.
GetPosition ==
  /\ call = Idle
  /\ renderer = "3D"
  /\ \E pi \in PathIndices :
       \E path_idx \in 0..(Paths[pi].n - 1) :
         call' = [op |-> "getPosition", args |-> <<Paths[pi].id, path_idx>>,
                  ret |-> getPosition(landmarks, Paths[pi].id, path_idx),
                  err |-> FALSE]
  /\ UNCHANGED
       <<renderer, landmarks, curPath, curPathIdx, roiIdx, load, disp, pointer>>

\* The positions looked up: on, between and beside the lines of the paths.
QueryPoints == { <<3 * k, y, 0>> : k \in 0..(MaxN - 1), y \in {0, 4, 8} }

\* getPosition(path, path_idx) followed by the resolution of the landmark
\* pair and fraction it returned; the result is <<>> when there is no pair.
RoundTrip ==
  /\ call = Idle
  /\ renderer = "3D"
  /\ \E pi \in PathIndices :
       \E path_idx \in 0..(Paths[pi].n - 1) :
         LET g == getPosition(landmarks, Paths[pi].id, path_idx)
         IN  call' = [op |-> "roundTrip", args |-> <<Paths[pi].id, path_idx>>,
                      ret |-> IF g = <<>> \/ g[3][2] = 0 THEN <<>>
                              ELSE <<g, _indexOnPath(landmarks, landmarks[g[1] + 1].id,
                                                    landmarks[g[2] + 1].id, g[3]).ret>>,
                      err |-> FALSE]
  /\ UNCHANGED
       <<renderer, landmarks, curPath, curPathIdx, roiIdx, load, disp, pointer>>

\* A call of positionToPath(pos, tol) that makes the position it found the
\* current position.
PositionToPathMoving ==
  /\ call = Idle
  /\ \E pos \in QueryPoints, tol \in 0..MaxTol :
       LET fnd == positionToPath(pos, tol)
       IN  /\ call' = [op |-> "positionToPath", args |-> <<pos, tol>>,
                       ret |-> fnd, err |-> FALSE]
           /\ curPath' = IF fnd = <<>> THEN curPath ELSE fnd[1]
           /\ curPathIdx' = IF fnd = <<>> THEN curPathIdx ELSE fnd[2]
  /\ UNCHANGED <<renderer, landmarks, roiIdx, load, disp, pointer>>

\* A call of positionToPath(pos, tol).
PositionToPath ==
  /\ call = Idle
  /\ \E pos \in QueryPoints, tol \in 0..MaxTol :
       call' = [op |-> "positionToPath", args |-> <<pos, tol>>,
                ret |-> positionToPath(pos, tol), err |-> FALSE]
  /\ UNCHANGED
       <<renderer, landmarks, curPath, curPathIdx, roiIdx, load, disp, pointer>>

\* The results of resolving every landmark pair and fraction.
Resolutions ==
  { indexFromLandmarkPair(renderer, landmarks, lmid0, lmid1, dst) :
      lmid0 \in QueryIds, lmid1 \in QueryIds, dst \in Fractions }

\* A call of setPosition with any nine arguments: p, rs and re are the
\* results of its three resolutions, recorded as the call's arguments.
SetPosition ==
  /\ call = Idle
  /\ \E p \in Resolutions, rs \in Resolutions, re \in Resolutions :
       IF p.err \/ rs.err \/ re.err
       THEN /\ call' = [op |-> "setPosition", args |-> <<p.ret, rs.ret, re.ret>>,
                        ret |-> <<>>, err |-> TRUE]
            /\ UNCHANGED <<curPath, curPathIdx, roiIdx>>
       ELSE LET u == _updatePosition(renderer, roiIdx,
                                     p.ret[1], p.ret[2], rs.ret[2], re.ret[2])
            IN  /\ curPath' = u[1]
                /\ curPathIdx' = u[2]
                /\ roiIdx' = u[3]
                /\ call' = [op |-> "setPosition", args |-> <<p.ret, rs.ret, re.ret>>,
                            ret |-> <<>>, err |-> u[4]]
  /\ UNCHANGED <<renderer, landmarks, load, disp, pointer>>

\* The caller takes the result.
Return ==
  /\ call # Idle
  /\ call' = Idle
  /\ UNCHANGED
       <<renderer, landmarks, curPath, curPathIdx, roiIdx, load, disp, pointer>>

(***************************************************************************)
(* SpecQuery: the pure queries over every landmark table of RawConfigs.   *)
(***************************************************************************)
InitQuery == InitWith(RawConfigs)

NextQuery == IndexOnPath \/ GetPosition \/ RoundTrip \/ Return

SpecQuery == InitQuery /\ [][NextQuery]_vars

(***************************************************************************)
(* Spec: setPosition, over the landmark tables with a branch point        *)
(* anywhere on the first path and at the end of the second path, a        *)
(* landmark at the end of the first path and a landmark at the start of   *)
(* the second path.                                                        *)
(***************************************************************************)
PosConfigs ==
  { cfg \in RawConfigs :
      /\ cfg[1].paths = PathIds /\ cfg[1].position[2] = PathN[2] - 1
      /\ cfg[2].paths = <<PathIds[1]>> /\ cfg[2].position = <<PathN[1] - 1>>
      /\ cfg[3].paths = <<PathIds[2]>> /\ cfg[3].position = <<0>> }

Init == InitWith(PosConfigs)

Next == SetPosition \/ Return

Spec == Init /\ [][Next]_vars

(***************************************************************************)
(* SpecNearest: positionToPath over the paths of the configuration.       *)
(***************************************************************************)
InitNearest == InitWith(PosConfigs)

NextNearest == PositionToPath \/ Return

SpecNearest == InitNearest /\ [][NextNearest]_vars

(***************************************************************************)
(* SpecPick: pick events of the 3D renderer.  The hit lists are the lists *)
(* of at most MaxHits of the hits below: hits on the first path and on    *)
(* the first landmark at two points each, on the second path, on the      *)
(* marker, on the surface at a vertex of its face 0 and of its degenerate *)
(* face 1, on the reference object and on no object.                      *)
(***************************************************************************)
Hits ==
  { Hit(1, <<0, 0, 0>>, 0), Hit(1, <<3, 1, 0>>, 0), Hit(2, <<1, 2, 0>>, 0),
    Hit(3, <<3, 0, 0>>, 0), Hit(3, <<5, 1, 0>>, 0), Hit(5, <<1, 2, 0>>, 0),
    Hit(6, <<4, 0, 0>>, 0), Hit(6, <<4, 0, 0>>, 1), Hit(7, <<0, 0, 0>>, 0),
    Hit(NoObj, <<0, 0, 0>>, 0) }

HitLists == UNION { [1..k -> Hits] : k \in 0..MaxHits }

EventTypes == {"pick", "click"}

\* An event delivered to _picker: a pick event with any hit list, or an
\* event of another type with a hit list of at most one hit.
Picker ==
  /\ call = Idle
  /\ renderer = "3D"
  /\ \E type \in EventTypes, hitlist \in HitLists :
       /\ type = "pick" \/ Len(hitlist) <= 1
       /\ LET r == _picker([type |-> type, hitlist |-> hitlist], curPath)
          IN  call' = [op |-> "picker", args |-> <<type, hitlist>>,
                       ret |-> r.fn, err |-> r.err]
  /\ UNCHANGED
       <<renderer, landmarks, curPath, curPathIdx, roiIdx, load, disp, pointer>>

\* The landmark tables with the branch point at the start of the first path.
PickConfigs == { cfg \in PosConfigs : cfg[1].position[1] = 0 }

InitPick == InitWith(PickConfigs)

NextPick == Picker \/ Return

SpecPick == InitPick /\ [][NextPick]_vars

(***************************************************************************)
(* SpecMap: the domain map queries of the 2D renderer, in the states      *)
(* reached by setPosition.                                                 *)
(***************************************************************************)
Coords == { Frac(k, 2) : k \in -(MaxCoord + 1)..(2 * MaxCoord + 1) }

\* A call of _getObjValue on the map of a path.
GetObjValue ==
  /\ call = Idle
  /\ renderer = "2D"
  /\ \E pi \in PathIndices, x \in Coords, y \in Coords :
       call' = [op |-> "getObjValue", args |-> <<pi, x, y>>,
                ret |-> <<_getObjValue(Mapping(pi), x, y)>>, err |-> FALSE]
  /\ UNCHANGED
       <<renderer, landmarks, curPath, curPathIdx, roiIdx, load, disp, pointer>>

\* A call of mapPointToMidline(p).
MapPointToMidline ==
  /\ call = Idle
  /\ renderer = "2D"
  /\ \E x \in Coords, y \in Coords :
       LET r == mapPointToMidline(curPath, <<x, y>>)
       IN  call' = [op |-> "mapPointToMidline", args |-> <<x, y>>,
                    ret |-> r.ret, err |-> r.err]
  /\ UNCHANGED
       <<renderer, landmarks, curPath, curPathIdx, roiIdx, load, disp, pointer>>

InitMap == InitWith(PickConfigs) /\ renderer = "2D"

NextMap == SetPosition \/ GetObjValue \/ MapPointToMidline \/ Return

SpecMap == InitMap /\ [][NextMap]_vars

(***************************************************************************)
(* SpecInterval: mapIntervalToMidline of the 2D renderer, over the        *)
(* landmark tables with the first landmark at the start of its paths, the *)
(* second at the end of the first path and the third at the start of the  *)
(* second path.                                                            *)
(***************************************************************************)
IntervalConfigs ==
  { cfg \in RawConfigs :
      /\ cfg[1].position[1] = 0
      /\ cfg[2].paths = <<PathIds[1]>> /\ cfg[2].position = <<PathN[1] - 1>>
      /\ cfg[3].paths = <<PathIds[2]>> /\ cfg[3].position = <<0>> }

\* A call of mapIntervalToMidline with any four anatomy ids and fractions.
MapIntervalToMidline ==
  /\ call = Idle
  /\ \E lmk0 \in AnatomyIds, lmk1 \in AnatomyIds, f0 \in Fractions,
        lmk2 \in AnatomyIds, lmk3 \in AnatomyIds, f1 \in Fractions :
       call' = [op |-> "mapIntervalToMidline",
                args |-> <<lmk0, lmk1, f0, lmk2, lmk3, f1>>,
                ret |-> mapIntervalToMidline(landmarks, lmk0, lmk1, f0, lmk2, lmk3, f1),
                err |-> FALSE]
  /\ UNCHANGED
       <<renderer, landmarks, curPath, curPathIdx, roiIdx, load, disp, pointer>>

InitInterval == InitWith(IntervalConfigs) /\ renderer = "2D"

NextInterval == MapIntervalToMidline \/ Return

SpecInterval == InitInterval /\ [][NextInterval]_vars

(***************************************************************************)
(* SpecLoad: loadModels of the 2D renderer and the completion of its      *)
(* loads, in any order.  The browser runs the callback of every load it   *)
(* was given, so a pending load does not stay pending for ever.           *)
(***************************************************************************)
\* loadModels(), with any outcome of the loads within the call.
LoadModels ==
  /\ call = Idle
  /\ ~load.started
  /\ \E o \in Outcomes(load.images) : load' = loadModels(load, o)
  /\ UNCHANGED
       <<renderer, landmarks, curPath, curPathIdx, roiIdx, call, disp, pointer>>

\* The callback of a pending load, after loadModels has returned: on_load,
\* then _postLoad.
LoadDone ==
  /\ \E l \in 1..Len(load.status) :
       /\ load.status[l] = "pending"
       /\ load' = [_postLoad(load) EXCEPT !.status[l] = "late"]
  /\ UNCHANGED
       <<renderer, landmarks, curPath, curPathIdx, roiIdx, call, disp, pointer>>

\* A pending load fails: the alert, and no _postLoad.
LoadFail ==
  /\ \E l \in 1..Len(load.status) :
       /\ load.status[l] = "pending"
       /\ load' = [load EXCEPT !.status[l] = "failed"]
  /\ UNCHANGED
       <<renderer, landmarks, curPath, curPathIdx, roiIdx, call, disp, pointer>>

\* The icon of a pending load cannot be loaded and the callback of _loadSvg
\* is run with null: on_load, then _postLoad.
LoadSvgNull ==
  /\ \E l \in 1..Len(load.status) :
       /\ load.status[l] = "pending"
       /\ IsSvg(l)
       /\ load' = [_postLoad(load) EXCEPT !.status[l] = "null"]
  /\ UNCHANGED
       <<renderer, landmarks, curPath, curPathIdx, roiIdx, call, disp, pointer>>

InitLoad ==
  /\ renderer = "2D"
  /\ landmarks \in { _sortCfgLandmarks(cfg) : cfg \in PickConfigs }
  /\ curPath = 0
  /\ curPathIdx = 0
  /\ roiIdx = <<0, 0>>
  /\ call = Idle
  /\ \E fn \in BOOLEAN, images \in 0..MaxImages :
       load = [NoLoad EXCEPT !.fn = fn, !.images = images]
  /\ disp = NoDisp
  /\ pointer = NoPointer

NextLoad == LoadModels \/ LoadDone \/ LoadFail \/ LoadSvgNull

SpecLoad ==
  InitLoad /\ [][NextLoad]_vars /\ WF_vars(LoadDone \/ LoadFail \/ LoadSvgNull)

(***************************************************************************)
(* SpecPure: the queries between calls of setPosition.                     *)
(***************************************************************************)
InitPure == InitWith(PickConfigs)

NextPure == SetPosition \/ IndexOnPath \/ GetPosition \/ PositionToPath \/ Return

SpecPure == InitPure /\ [][NextPure]_vars

(***************************************************************************)
(* SpecDisp: the tracks, the markers and the search of the display groups *)
(* of the 2D renderer, from the visualisation as created.                 *)
(***************************************************************************)
TrackIds == {"t1", "t2"}

MarkerIds == {"m1", "m2"}

\* The ids searched for: of tracks, markers, paths, the image, a landmark,
\* of nothing, and no id.
FindIds ==
  TrackIds \cup MarkerIds \cup { ToString(PathIds[k]) : k \in 1..NumPaths }
  \cup {"ref", LmIds[1], MissingId, NoId}

\* The places a marker is put: on the map, off the map, and where the map
\* gives an index that is not of the path.
MarkerPoints == { <<Frac(0, 1), Frac(0, 1)>>, <<Frac(1, 1), Frac(0, 1)>>,
                  <<Frac(-1, 1), Frac(1, 1)>> }

\* The objects on display that are added and removed.
NumObjs == Len(disp.tracks) + Len(disp.markers)

\* A call of findDispObj(gca_grp, gca_id); the result is d_itm.
FindDispObj ==
  /\ call = Idle
  /\ \E gca_grp \in GcaGroups, gca_id \in FindIds :
       call' = [op |-> "findDispObj", args |-> <<gca_grp, gca_id>>,
                ret |-> <<findDispObj(disp, gca_grp, gca_id)[2]>>, err |-> FALSE]
  /\ UNCHANGED
       <<renderer, landmarks, curPath, curPathIdx, roiIdx, load, disp, pointer>>

\* A call of addTrack.
AddTrack ==
  /\ call = Idle
  /\ disp.version = "2.2.1"
  /\ NumObjs < MaxObjs
  /\ \E track_id \in TrackIds, path_id \in { PathIds[k] : k \in 1..NumPaths } \cup {0},
        idx \in {<<0, 1>>, <<MaxN, -1>>} :
       /\ disp' = addTrack(disp, track_id, path_id, idx[1], idx[2])
       /\ call' = [op |-> "addTrack", args |-> <<track_id, path_id, idx[1], idx[2]>>,
                   ret |-> <<>>, err |-> FALSE]
  /\ UNCHANGED
       <<renderer, landmarks, curPath, curPathIdx, roiIdx, load, pointer>>

\* A call of removeTrack.
RemoveTrack ==
  /\ call = Idle
  /\ disp.version = "2.2.1"
  /\ \E track_id \in TrackIds :
       /\ disp' = removeTrack(disp, track_id)
       /\ call' = [op |-> "removeTrack", args |-> <<track_id>>,
                   ret |-> <<>>, err |-> FALSE]
  /\ UNCHANGED
       <<renderer, landmarks, curPath, curPathIdx, roiIdx, load, pointer>>

\* A call of addMarker: a marker off the map is not added.
AddMarker ==
  /\ call = Idle
  /\ NumObjs < MaxObjs
  /\ \E id \in MarkerIds, pos \in MarkerPoints, txt \in BOOLEAN :
       LET mpos == IF disp.version = "2.2.1"
                   THEN mapPointToMidlineTested(curPath, pos)
                   ELSE mapPointToMidline(curPath, pos)
       IN  /\ disp' = IF mpos.err THEN disp
                      ELSE addMarker(disp, id, mpos.ret # <<>>, txt)
           /\ call' = [op |-> "addMarker", args |-> <<id, pos, txt>>,
                       ret |-> <<>>, err |-> mpos.err]
  /\ UNCHANGED
       <<renderer, landmarks, curPath, curPathIdx, roiIdx, load, pointer>>

\* A call of removeMarker.
RemoveMarker ==
  /\ call = Idle
  /\ \E id \in MarkerIds :
       /\ disp' = removeMarker(disp, id)
       /\ call' = [op |-> "removeMarker", args |-> <<id>>,
                   ret |-> <<>>, err |-> FALSE]
  /\ UNCHANGED
       <<renderer, landmarks, curPath, curPathIdx, roiIdx, load, pointer>>

InitDisp ==
  /\ renderer = "2D"
  /\ landmarks \in { _sortCfgLandmarks(cfg) : cfg \in PickConfigs }
  /\ curPath = 0
  /\ curPathIdx = 0
  /\ roiIdx = <<0, 0>>
  /\ call = Idle
  /\ load = NoLoad
  /\ \E version \in DispVersions, image \in BOOLEAN :
       disp = _createVisualisation(version, image, landmarks, curPathIdx)
  /\ pointer = NoPointer

NextDisp ==
  FindDispObj \/ AddTrack \/ RemoveTrack \/ AddMarker \/ RemoveMarker \/ Return

SpecDisp == InitDisp /\ [][NextDisp]_vars

(***************************************************************************)
(* SpecIgnored: pick events of the 3D renderer whose hit lists mix hits on *)
(* a path, a landmark and the surface (at its face 0 and its degenerate    *)
(* face 1) with the hits that _picker passes over: on the reference        *)
(* object (an unrecognised type prefix), on the object named without a     *)
(* separator, on the object without a name and on no object.               *)
(***************************************************************************)
HitsWithIgnored ==
  { Hit(1, <<0, 0, 0>>, 0), Hit(3, <<3, 0, 0>>, 0), Hit(6, <<4, 0, 0>>, 0),
    Hit(6, <<4, 0, 0>>, 1), Hit(7, <<0, 0, 0>>, 0), Hit(8, <<0, 0, 0>>, 0),
    Hit(9, <<0, 0, 0>>, 0), Hit(NoObj, <<0, 0, 0>>, 0) }

\* A pick event delivered to _picker.
PickerWithIgnored ==
  /\ call = Idle
  /\ renderer = "3D"
  /\ \E hitlist \in UNION { [1..k -> HitsWithIgnored] : k \in 0..MaxHits } :
       LET r == _picker([type |-> "pick", hitlist |-> hitlist], curPath)
       IN  call' = [op |-> "picker", args |-> <<"pick", hitlist>>,
                    ret |-> r.fn, err |-> r.err]
  /\ UNCHANGED
       <<renderer, landmarks, curPath, curPathIdx, roiIdx, load, disp, pointer>>

NextIgnored == PickerWithIgnored \/ Return

SpecIgnored == InitPick /\ [][NextIgnored]_vars

(***************************************************************************)
(* SpecPair: indexFromLandmarkPair over tables of two landmarks, each on   *)
(* one path or with two entries in its paths list (two paths in either     *)
(* order, or one path twice), at the start or the end of the path.         *)
(***************************************************************************)
AtEnds(o) ==
  \A k \in 1..Len(o.paths) :
    \E p \in 1..NumPaths :
      o.paths[k] = PathIds[p] /\ o.position[k] \in {0, PathN[p] - 1}

PairOptions == { o \in OnOnePath \cup OnTwoPaths : WellFormed(o) /\ AtEnds(o) }

PairConfigs ==
  { <<Landmark(LmIds[1], a), Landmark(LmIds[2], b)>> :
      a \in PairOptions, b \in PairOptions }

InitPair == InitWith(PairConfigs)

NextPair == IndexOnPath \/ Return

SpecPair == InitPair /\ [][NextPair]_vars

(***************************************************************************)
(* SpecPointer: the mouse events of the canvas of the 2D renderer, in any  *)
(* order, at the points of a small grid; the pan of the canvas is kept     *)
(* within MaxPan.                                                           *)
(***************************************************************************)
\* e.button as fabric gives it: 1 is the first button, 3 the right button.
Buttons == {1, 3}

\* e.pointer
PointerPositions == (0..MaxPtr) \X (0..1)

MouseDown ==
  /\ call = Idle
  /\ \E button \in Buttons, p \in PointerPositions :
       /\ pointer' = _onMouseDown(pointer, button, p)
       /\ call' = [op |-> "mouseDown", args |-> <<button, p>>,
                    ret |-> <<>>, err |-> FALSE]
  /\ UNCHANGED <<renderer, landmarks, curPath, curPathIdx, roiIdx, load, disp>>

MouseMove ==
  /\ call = Idle
  /\ \E p \in PointerPositions :
       /\ pointer' = _onMouseMove(pointer, p)
       /\ Abs(pointer'.pan[1]) <= MaxPan /\ Abs(pointer'.pan[2]) <= MaxPan
       /\ call' = [op |-> "mouseMove", args |-> <<p>>,
                    ret |-> <<>>, err |-> FALSE]
  /\ UNCHANGED <<renderer, landmarks, curPath, curPathIdx, roiIdx, load, disp>>

\* The result is the point handed to pick_fn, <<>> if it is not called.
MouseUp ==
  /\ call = Idle
  /\ \E p \in PointerPositions :
       /\ pointer' = _onMouseUp(pointer)
       /\ call' = [op |-> "mouseUp", args |-> <<p>>,
                    ret |-> PickedAt(pointer, p), err |-> FALSE]
  /\ UNCHANGED <<renderer, landmarks, curPath, curPathIdx, roiIdx, load, disp>>

InitPointer ==
  /\ renderer = "2D"
  /\ landmarks \in { _sortCfgLandmarks(cfg) : cfg \in PickConfigs }
  /\ curPath = 0
  /\ curPathIdx = 0
  /\ roiIdx = <<0, 0>>
  /\ call = Idle
  /\ load = NoLoad
  /\ disp = NoDisp
  /\ \E fn \in BOOLEAN : pointer = [NoPointer EXCEPT !.fn = fn]

NextPointer == MouseDown \/ MouseMove \/ MouseUp \/ Return

SpecPointer == InitPointer /\ [][NextPointer]_vars

(***************************************************************************)
(* Definitions used to state the properties.                               *)
(***************************************************************************)
Min(a, b) == IF a < b THEN a ELSE b
Max(a, b) == IF a > b THEN a ELSE b

Known(id) == \E k \in 1..Len(landmarks) : landmarks[k].id = id

\* The <<path id, position>> occurrences of the landmarks with the given id.
Occurrences(id) ==
  UNION { { <<landmarks[k].paths[j], landmarks[k].position[j]>> :
              j \in 1..Len(landmarks[k].paths) } :
          k \in { m \in 1..Len(landmarks) : landmarks[m].id = id } }

\* The pairs of occurrences of two landmarks on one path.
SharedOccurrences(id0, id1) ==
  { s \in Occurrences(id0) \X Occurrences(id1) : s[1][1] = s[2][1] }

PathIndexOfId(id) == CHOOSE pi \in PathIndices : Paths[pi].id = id

\* q is the floor of k * f.
IsFloorOf(q, k, f) == q * f[2] <= k * f[1] /\ k * f[1] < (q + 1) * f[2]

FloorRange == -(MaxN * (MaxFrac + 1))..(MaxN * (MaxFrac + 1))

NotFoundIn(args) == \E k \in 1..3 : args[k] = NotFound

\* A setPosition call whose three resolutions all succeeded has returned.
AllResolved == call.op = "setPosition" /\ ~NotFoundIn(call.args)

CurrentIndexValid ==
  /\ curPath \in PathIndices
  /\ curPathIdx \in 0..(Paths[curPath].n - 1)

\* The landmarks (1-based table positions) that occur on the path.
OnPath(path) ==
  { k \in 1..Len(landmarks) :
      \E j \in 1..Len(landmarks[k].paths) : landmarks[k].paths[j] = path }

\* The position on the path of a landmark that occurs on it.
PosOnPath(k, path) ==
  landmarks[k].position[CHOOSE j \in 1..Len(landmarks[k].paths) :
                          landmarks[k].paths[j] = path]

\* enclosingLandmarks as the specification states it.
EnclosingLandmarks(path, idx) ==
  LET lowers == { k \in OnPath(path) : PosOnPath(k, path) <= idx }
      uppers == { k \in OnPath(path) : PosOnPath(k, path) >= idx }
  IN  IF lowers = {} \/ uppers = {} THEN <<>>
      ELSE LET lo == CHOOSE k \in lowers : \A m \in lowers :
                       \/ PosOnPath(m, path) < PosOnPath(k, path)
                       \/ PosOnPath(m, path) = PosOnPath(k, path) /\ m <= k
               up == CHOOSE k \in uppers : \A m \in uppers :
                       \/ PosOnPath(m, path) > PosOnPath(k, path)
                       \/ PosOnPath(m, path) = PosOnPath(k, path) /\ m >= k
           IN  <<lo - 1, up - 1,
                 Frac(idx - PosOnPath(lo, path), PosOnPath(up, path) - PosOnPath(lo, path))>>

\* Landmarks l and u are adjacent on the path, with the index strictly between.
StrictlyBetween(path, l, u, idx) ==
  /\ l \in OnPath(path) /\ u \in OnPath(path)
  /\ PosOnPath(l, path) < idx /\ idx < PosOnPath(u, path)
  /\ \A m \in OnPath(path) :
       PosOnPath(m, path) <= PosOnPath(l, path) \/ PosOnPath(m, path) >= PosOnPath(u, path)

\* The <<path index, point index>> of every point of every path.
AllPathPoints ==
  UNION { { <<pi, pj>> : pj \in 0..(Paths[pi].n - 1) } : pi \in PathIndices }

\* The least squared distance from pos to a point of a path.
MinDistSq(pos) ==
  LET ds == { DistSq(pos, PathPoint(e[1], e[2])) : e \in AllPathPoints }
  IN  CHOOSE d \in ds : \A e \in ds : d <= e

(***************************************************************************)
(* Properties of the landmark-pair resolution (SpecQuery).                 *)
(***************************************************************************)

\* C1: for two landmark ids that exist and share a path, and any fraction,
\* the resolution returns a shared path and the index
\* clamp(i0 + floor(fraction * (i1 - i0)), 0, n - 1) for the landmarks'
\* positions i0, i1 on that path; the index is an index of the path.
C1_IndexFromLandmarkPair ==
  call.op = "indexOnPath" =>
    LET shared == SharedOccurrences(call.args[1], call.args[2])
    IN  shared # {} =>
          /\ ~call.err
          /\ \E s \in shared : \E q \in FloorRange :
               LET pi == PathIndexOfId(s[1][1])
               IN  /\ IsFloorOf(q, s[2][2] - s[1][2], call.args[3])
                   /\ call.ret = <<pi, Max(0, Min(s[1][2] + q, Paths[pi].n - 1))>>
          /\ call.ret[1] \in PathIndices
          /\ call.ret[2] \in 0..(Paths[call.ret[1]].n - 1)

\* C1 witness: a fraction above 1 between two different landmarks on one
\* path has been resolved to the last index of the path, by the clamp.
C1_Witness ==
  /\ call.op = "indexOnPath"
  /\ call.args[1] # call.args[2]
  /\ call.args[3][1] > call.args[3][2]
  /\ call.ret # NotFound
  /\ call.ret[2] = Paths[call.ret[1]].n - 1
  /\ \A s \in SharedOccurrences(call.args[1], call.args[2]) :
       \E q \in FloorRange :
         /\ IsFloorOf(q, s[2][2] - s[1][2], call.args[3])
         /\ s[1][2] + q > Paths[call.ret[1]].n - 1

\* C2: when a landmark id is not in the table, or the two landmarks have no
\* path id in common, the resolution returns NotFound and raises no error.
C2_NotFound ==
  call.op = "indexOnPath" =>
    ( (~Known(call.args[1]) \/ ~Known(call.args[2])
         \/ SharedOccurrences(call.args[1], call.args[2]) = {})
      => call.ret = NotFound /\ ~call.err )

\* C2 witness: two landmarks of the table on different paths only have
\* been resolved to NotFound.
C2_Witness ==
  /\ call.op = "indexOnPath"
  /\ Known(call.args[1]) /\ Known(call.args[2])
  /\ SharedOccurrences(call.args[1], call.args[2]) = {}
  /\ call.ret = NotFound

(***************************************************************************)
(* Properties of setPosition (Spec).                                       *)
(***************************************************************************)

\* C3: a setPosition call with a resolution that returns NotFound raises no
\* error and leaves the current path, current index and ROI as they were.
C3_FailsSilently ==
  [][ (call'.op = "setPosition" /\ NotFoundIn(call'.args))
        => (~call'.err /\ curState' = curState) ]_vars

\* C4: in the initial state, and after every setPosition call whose three
\* resolutions succeeded, the current index is an index of the current path.
C4_CurrentIndexValid ==
  CurrentIndexValid /\ [](AllResolved => CurrentIndexValid)

\* C4 witness: a setPosition call whose resolutions all succeeded has moved
\* the current position to the last point of the second path.
C4_Witness ==
  /\ AllResolved
  /\ curPath = 1
  /\ curPathIdx = Paths[1].n - 1

\* C5: after every setPosition call whose three resolutions succeeded,
\* 0 <= roiStartIndex <= roiEndIndex < n of the current path.
C5_RoiValid ==
  AllResolved =>
    /\ curPath \in PathIndices
    /\ 0 <= roiIdx[1]
    /\ roiIdx[1] <= roiIdx[2]
    /\ roiIdx[2] < Paths[curPath].n

(***************************************************************************)
(* Properties of getPosition (SpecQuery).                                  *)
(***************************************************************************)

\* C6: getPosition returns the landmark of greatest position <= index as
\* lower and the landmark of least position >= index as upper, among the
\* landmarks on the path, by their positions on that path, with the
\* fraction between them; and NotFound exactly when one of them is missing.
C6_EnclosingLandmarks ==
  call.op = "getPosition" =>
    call.ret = EnclosingLandmarks(call.args[1], call.args[2])

\* C7: for an index strictly between two adjacent landmarks of a path,
\* getPosition returns landmarks at those two positions with the fraction
\* between them, and resolving the returned pair and fraction gives the
\* same path and an index within 1 of the given index.
C7_RoundTrip ==
  call.op = "roundTrip" =>
    \A l \in OnPath(call.args[1]), u \in OnPath(call.args[1]) :
      StrictlyBetween(call.args[1], l, u, call.args[2]) =>
        /\ call.ret # <<>>
        /\ PosOnPath(call.ret[1][1] + 1, call.args[1]) = PosOnPath(l, call.args[1])
        /\ PosOnPath(call.ret[1][2] + 1, call.args[1]) = PosOnPath(u, call.args[1])
        /\ call.ret[1][3] = Frac(call.args[2] - PosOnPath(l, call.args[1]),
                                 PosOnPath(u, call.args[1]) - PosOnPath(l, call.args[1]))
        /\ call.ret[2][1] = PathIndexOfId(call.args[1])
        /\ call.ret[2][2] - call.args[2] \in -1..1

(***************************************************************************)
(* Properties of positionToPath (SpecNearest).                             *)
(***************************************************************************)

\* C8: positionToPath returns NotFound exactly when the least squared
\* distance from the point to a path point exceeds the tolerance squared;
\* otherwise it returns a nearest point and its distance.
C8_Tolerance ==
  call.op = "positionToPath" =>
    LET min == MinDistSq(call.args[1])
    IN  /\ (call.ret = <<>>) <=> (min > call.args[2] * call.args[2])
        /\ call.ret # <<>> =>
             /\ DistSq(call.args[1], PathPoint(call.ret[1], call.ret[2])) = min
             /\ call.ret[3] * call.ret[3] = min

\* C9: positionToPath with tolerance 0 and a point equal to point k of a
\* path returns that path, k and the distance 0.
C9_ZeroTolerance ==
  (call.op = "positionToPath" /\ call.args[2] = 0) =>
    \A e \in AllPathPoints :
      PathPoint(e[1], e[2]) = call.args[1] => call.ret = <<e[1], e[2], 0>>

(***************************************************************************)
(* Definitions used to state the properties of the pick handler.          *)
(***************************************************************************)
\* Hit h is a hit on an object named prefix-id, for some id.
HitOn(h, prefix) ==
  /\ h.object # NoObj
  /\ Len(Objects[h.object].name) > Len(prefix)
  /\ SubSeq(Objects[h.object].name, 1, Len(prefix) + 1) = prefix \o <<"-">>

PathHits(hitlist) == { i \in 1..Len(hitlist) : HitOn(hitlist[i], <<"path">>) }

LandmarkHits(hitlist) == { i \in 1..Len(hitlist) : HitOn(hitlist[i], <<"lm">>) }

RECURSIVE SumOfPoints(_, _)
SumOfPoints(hitlist, is) ==
  IF is = {} THEN <<0, 0, 0>>
  ELSE LET i == CHOOSE j \in is : TRUE
           q == SumOfPoints(hitlist, is \ {i})
           p == hitlist[i].point
       IN  <<p[1] + q[1], p[2] + q[2], p[3] + q[3]>>

\* The centroid of the points of the hits is of the hit list.
Centroid(hitlist, is) ==
  LET c == SumOfPoints(hitlist, is)
      k == Cardinality(is)
  IN  <<Frac(c[1], k), Frac(c[2], k), Frac(c[3], k)>>

\* The hit list is made of hits on one path object and one landmark hit.
OnePathOneLandmark(hitlist) ==
  /\ PathHits(hitlist) # {}
  /\ Cardinality(LandmarkHits(hitlist)) = 1
  /\ PathHits(hitlist) \cup LandmarkHits(hitlist) = 1..Len(hitlist)
  /\ \A i, j \in PathHits(hitlist) : hitlist[i].object = hitlist[j].object

\* C10: a pick event whose hit list is made, in any order, of one or more
\* hits on one path object and of one hit on a landmark calls the client
\* function once, without error, with exactly two entries; the position of
\* the entry of the path is the centroid of the points of the path hits.
C10_PickAggregation ==
  (call.op = "picker" /\ call.args[1] = "pick" /\ OnePathOneLandmark(call.args[2]))
    => /\ ~call.err
       /\ Len(call.ret) = 4
       /\ \A a \in 1..4 : Len(call.ret[a]) = 2
       /\ \E e \in 1..2 :
            /\ call.ret[1][e] = call.args[2][CHOOSE i \in PathHits(call.args[2]) : TRUE].object
            /\ call.ret[2][e] = <<"path">>
            /\ call.ret[4][e] = Centroid(call.args[2], PathHits(call.args[2]))
            /\ call.ret[2][3 - e] = <<"lm">>

\* Three hits at two different points on one path and a landmark hit.
C10_Witness ==
  /\ call.op = "picker" /\ call.args[1] = "pick"
  /\ OnePathOneLandmark(call.args[2])
  /\ Cardinality(PathHits(call.args[2])) = 3
  /\ \E i, j \in PathHits(call.args[2]) : call.args[2][i].point # call.args[2][j].point
  /\ HitOn(call.args[2][2], <<"lm">>)
  /\ Len(call.ret) = 4 /\ Len(call.ret[4]) = 2

\* The category of a hit, from the type prefix of the name of its object.
Category(h) ==
  IF HitOn(h, <<"path">>) THEN "path"
  ELSE IF HitOn(h, <<"lm">>) THEN "lm"
  ELSE IF HitOn(h, <<"mm">>) THEN "mm"
  ELSE IF HitOn(h, <<"ana">>) THEN "ana"
  ELSE "ignored"

\* The identifier of the object of a hit of category c: its name after "c-".
IdOf(h, c) ==
  SubSeq(Objects[h.object].name, Len(<<c, "-">>) + 1, Len(Objects[h.object].name))

\* Vertex k (0..2) of face f of the surface.
FaceVertex(f, k) ==
  LET v == SurfaceGeometry.index[3 * f + k + 1]
  IN  <<SurfaceGeometry.position[3 * v + 1], SurfaceGeometry.position[3 * v + 2],
        SurfaceGeometry.position[3 * v + 3]>>

\* The cross product of the two edges of face f from its vertex 0.
FaceNormal(f) ==
  LET u == <<FaceVertex(f, 1)[1] - FaceVertex(f, 0)[1],
             FaceVertex(f, 1)[2] - FaceVertex(f, 0)[2],
             FaceVertex(f, 1)[3] - FaceVertex(f, 0)[3]>>
      w == <<FaceVertex(f, 2)[1] - FaceVertex(f, 0)[1],
             FaceVertex(f, 2)[2] - FaceVertex(f, 0)[2],
             FaceVertex(f, 2)[3] - FaceVertex(f, 0)[3]>>
  IN  <<u[2] * w[3] - u[3] * w[2], u[3] * w[1] - u[1] * w[3],
        u[1] * w[2] - u[2] * w[1]>>

\* The hit is on a triangle of zero area of the surface.
OnDegenerateTriangle(h) ==
  Category(h) = "ana" /\ FaceNormal(h.faceIndex) = <<0, 0, 0>>

\* The hit gives an entity: it is on a path, a landmark or a marker, or on a
\* triangle of the surface that is not degenerate.
Resolves(h) ==
  Category(h) \in {"path", "lm", "mm"}
    \/ (Category(h) = "ana" /\ ~OnDegenerateTriangle(h))

PickEvent == call.op = "picker" /\ call.args[1] = "pick"

\* Entry e of the arguments of the client function describes one object.
SameEntity(ret, e) ==
  /\ ret[1][e] # NoObj
  /\ Objects[ret[1][e]].name = ret[2][e] \o <<"-">> \o ret[3][e]
  /\ Len(ret[4][e]) = 3

\* C11: for every pick event the client function is called (once) if a hit
\* of the hit list gives an entity and is not called if none does; when it
\* is called its arrays of objects, types, names and positions have the
\* same length and entry i of each describes the same object.
C11_CallbackOnce ==
  PickEvent =>
    IF \E i \in 1..Len(call.args[2]) : Resolves(call.args[2][i])
    THEN /\ Len(call.ret) = 4
         /\ Len(call.ret[1]) > 0
         /\ \A a \in 1..4 : Len(call.ret[a]) = Len(call.ret[1])
         /\ \A e \in 1..Len(call.ret[1]) : SameEntity(call.ret, e)
    ELSE call.ret = <<>>

\* The hits of the hit list of a category of cs.
HitsOf(hitlist, cs) == { i \in 1..Len(hitlist) : Category(hitlist[i]) \in cs }

\* The first hit of the hit list of a category of cs.
FirstHit(hitlist, cs) ==
  hitlist[CHOOSE i \in HitsOf(hitlist, cs) : \A j \in HitsOf(hitlist, cs) : i <= j]

\* The entries of the arguments of the client function of a type of cs.
EntriesOf(ret, cs) ==
  IF ret = <<>> THEN {}
  ELSE { e \in 1..Len(ret[2]) : \E c \in cs : ret[2][e] = <<c>> }

\* There is one entry of a type of cs: that of the first hit of a category
\* of cs.
OneEntryOfFirst(hitlist, ret, cs) ==
  /\ Cardinality(EntriesOf(ret, cs)) = 1
  /\ \A e \in EntriesOf(ret, cs) :
       LET h == FirstHit(hitlist, cs)
       IN  /\ ret[1][e] = h.object
           /\ ret[2][e] = <<Category(h)>>
           /\ ret[3][e] = IdOf(h, Category(h))

NoDegenerateHit(hitlist) ==
  \A i \in 1..Len(hitlist) : ~OnDegenerateTriangle(hitlist[i])

HitsOn(hitlist, obj) == { i \in 1..Len(hitlist) : hitlist[i].object = obj }

\* C13: the position of a landmark or marker entry handed to the client
\* function is the centroid (sum of the points / count) of all the hits of
\* the hit list on that landmark or marker.
C13_MarkCentroid ==
  (PickEvent /\ call.ret # <<>>) =>
    \A e \in EntriesOf(call.ret, {"lm", "mm"}) :
      call.ret[4][e] = Centroid(call.args[2], HitsOn(call.args[2], call.ret[1][e]))

\* The hits of the hit list whose place is in keep, in their order.
RECURSIVE SubList(_, _, _)
SubList(hitlist, keep, i) ==
  IF i > Len(hitlist) THEN <<>>
  ELSE (IF i \in keep THEN <<hitlist[i]>> ELSE <<>>) \o SubList(hitlist, keep, i + 1)

\* The arguments of the client function for the pick event with the hits
\* of the hit list whose place is in keep.
PickResultOf(hitlist, keep) ==
  _picker([type |-> "pick", hitlist |-> SubList(hitlist, keep, 1)], curPath).fn

\* The place of the first hit of the hit list of a category of cs.
FirstPlace(hitlist, cs) ==
  CHOOSE i \in HitsOf(hitlist, cs) : \A j \in HitsOf(hitlist, cs) : i <= j

C15_DegenerateDropped ==
  (PickEvent /\ ~NoDegenerateHit(call.args[2])) =>
    /\ ~call.err
    /\ EntriesOf(call.ret, {"ana"}) = {}
         \/ ~OnDegenerateTriangle(FirstHit(call.args[2], {"ana"}))
    /\ \A cs \in {{"path"}, {"lm", "mm"}} :
         HitsOf(call.args[2], cs) # {} => EntriesOf(call.ret, cs) # {}

(***************************************************************************)
(* Definitions used to state the properties of the domain maps.           *)
(***************************************************************************)
\* The integer part of a coordinate (towards zero).
IntegerPart(f) ==
  CHOOSE k \in -(MaxCoord + 2)..(2 * MaxCoord + 2) :
    /\ Abs(k) * f[2] <= Abs(f[1]) /\ Abs(f[1]) < (Abs(k) + 1) * f[2]
    /\ (k # 0 => (k > 0 <=> f[1] > 0))

\* Column c and line l are in the bounding rectangle of the map of path pi.
InRectangle(pi, c, l) ==
  LET dom == Mapping(pi).object.domain
  IN  c \in dom.kol1..dom.lastkl /\ l \in dom.line1..dom.lastln

\* The columns of line l of the map of path pi that are in an interval.
CoveredColumns(pi, l) ==
  LET dom == Mapping(pi).object.domain
      ivln == dom.intvlines[l - dom.line1 + 1]
  IN  { c \in dom.kol1..dom.lastkl :
          \E j \in 1..Len(ivln) : c - dom.kol1 \in ivln[j][1]..ivln[j][2] }

\* Column c of line l has a value in the map of path pi.
InDomain(pi, c, l) == InRectangle(pi, c, l) /\ c \in CoveredColumns(pi, l)

\* The value of column c of line l, a column of an interval: the values of
\* a line follow each other in the order of its covered columns.
ValueOf(pi, c, l) ==
  LET obj == Mapping(pi).object
  IN  obj.values.values[obj.values.value_line_indices[l - obj.domain.line1 + 1]
        + Cardinality({ d \in CoveredColumns(pi, l) : d < c }) + 1]

\* C16: in every state reached by calls of setPosition, mapPointToMidline(p)
\* raises no error; it returns undefined when p has no value in the map of
\* the current path or the value is not an index of a point of the path,
\* and otherwise <<x, y, i>> with i the value and (x, y) point i of the
\* current path.
C16_MapPointToMidline ==
  call.op = "mapPointToMidline" =>
    LET c == IntegerPart(call.args[1])
        l == IntegerPart(call.args[2])
    IN  /\ ~call.err
        /\ IF /\ curPath \in PathIndices
              /\ InDomain(curPath, c, l)
              /\ ValueOf(curPath, c, l) \in 0..(Paths[curPath].n - 1)
           THEN LET i == ValueOf(curPath, c, l)
                IN  call.ret = <<Paths[curPath].points[i + 1][1],
                                 Paths[curPath].points[i + 1][2], i>>
           ELSE call.ret = <<>>

\* C17: _getObjValue(map, x, y) returns undefined, and no value, for every
\* coordinate (taken to its integer part) outside the bounding rectangle
\* kol1..lastkl by line1..lastln of the map, and for every coordinate in the
\* rectangle that is in no interval of its line.
C17_Miss ==
  call.op = "getObjValue" =>
    (~InDomain(call.args[1], IntegerPart(call.args[2]), IntegerPart(call.args[3]))
       => call.ret = <<Undefined>>)

\* A coordinate in the rectangle, in the gap between two intervals of its
\* line, between columns that have a value.
C17_Witness ==
  /\ call.op = "getObjValue"
  /\ LET pi == call.args[1]
         c == IntegerPart(call.args[2])
         l == IntegerPart(call.args[3])
     IN  /\ InRectangle(pi, c, l)
         /\ c \notin CoveredColumns(pi, l)
         /\ \E d, e \in CoveredColumns(pi, l) : d < c /\ c < e
  /\ call.ret = <<Undefined>>

\* The landmark with the anatomy id a, as an index of the table, or Undefined.
LandmarkOfAnatomy(a) ==
  IF \E k \in 1..Len(landmarks) : AnatomyId(landmarks[k].id) = a
  THEN (CHOOSE k \in 1..Len(landmarks) : AnatomyId(landmarks[k].id) = a) - 1
  ELSE Undefined

\* The paths that all the landmarks of the indices ls lie on.
CommonPaths(ls) ==
  { PathIds[p] : p \in { q \in 1..NumPaths :
      \A l \in ls : \E k \in 1..Len(landmarks[l + 1].paths) :
        landmarks[l + 1].paths[k] = PathIds[q] } }

\* C18: mapIntervalToMidline(lmk0, lmk1, f0, lmk2, lmk3, f1) returns
\* undefined exactly when one of the four landmarks is unknown or the four
\* do not all lie on one common path; otherwise it returns that path, the
\* index that the resolution of (lmk0, lmk1, f0) gives as start and the index
\* that the resolution of (lmk2, lmk3, f1) gives as end, both in 0..n-1.
C18_MapInterval ==
  call.op = "mapIntervalToMidline" =>
    LET l == [k \in 1..4 |-> LandmarkOfAnatomy(call.args[IF k < 3 THEN k ELSE k + 1])]
        known == \A k \in 1..4 : l[k] # Undefined
        common == CommonPaths({ l[k] : k \in 1..4 })
        id(k) == landmarks[l[k] + 1].id
    IN  IF ~known \/ common = {}
        THEN call.ret = <<>>
        ELSE /\ call.ret # <<>>
             /\ call.ret[1] \in common
             /\ LET s == indexFromLandmarkPair("2D", landmarks, id(1), id(2), call.args[3])
                    e == indexFromLandmarkPair("2D", landmarks, id(3), id(4), call.args[6])
                    n == Paths[pathIdToIdx(call.ret[1])].n
                IN  /\ call.ret[2] = s.ret[2] /\ call.ret[2] \in 0..(n - 1)
                    /\ call.ret[3] = e.ret[2] /\ call.ret[3] \in 0..(n - 1)

\* The loads that have the status st.
LoadsIn(st) == { l \in 1..Len(load.status) : load.status[l] = st }

\* _createVisualisation has run once and post_load_fn, if there is one, has
\* been called once.
CreatedOnce ==
  /\ load.created = 1
  /\ load.called = IF load.fn THEN 1 ELSE 0

\* C19: after loadModels, if no load fails, whether the loads complete
\* within loadModels or later and in whatever order, _createVisualisation
\* eventually has run exactly once and post_load_fn has been called exactly
\* once, and that stays so.
C19_LoadBarrier ==
  [](LoadsIn("failed") = {} /\ LoadsIn("null") = {})
    => <>[](load.started => CreatedOnce)

\* All loads have completed, the images after loadModels had returned, and
\* there is a post_load_fn.
C19_Witness ==
  /\ load.started /\ load.fn
  /\ LoadsIn("failed") = {} /\ LoadsIn("null") = {} /\ LoadsIn("pending") = {}
  /\ load.images = MaxImages
  /\ \A l \in 1..Len(load.status) :
       (l > NumIcons /\ ~IsJson(l, load.images)) => load.status[l] = "late"
  /\ CreatedOnce

\* The operations that are queries.
Queries == {"indexOnPath", "getPosition", "positionToPath"}

WithId(objs, id) == SelectSeq(objs, LAMBDA o : o.gca_id = id)

WithoutId(objs, id) == SelectSeq(objs, LAMBDA o : o.gca_id # id)

FirstOfGroupAndId(objs, gca_grp, gca_id) ==
  LET found == { i \in 0..(Len(objs) - 1) :
                   /\ objs[i + 1].gca_group = gca_grp
                   /\ (gca_id = NoId \/ objs[i + 1].gca_id = gca_id) }
  IN  IF found = {} THEN Undefined
      ELSE CHOOSE i \in found : \A j \in found : i <= j

\* C22: findDispObj(gca_grp, gca_id) returns the first object of the display
\* list of the group whose GCA group is gca_grp and whose GCA id is gca_id
\* (the first of the GCA group when gca_id is undefined), whatever objects
\* precede it, and no object only if the list has no such object.
C22_FindDispObj ==
  call.op = "findDispObj" =>
    call.ret[1] = FirstOfGroupAndId(ObjectsOf(disp, DispGroupOf(disp, call.args[1])),
                                    call.args[1], call.args[2])

\* C23: removeMarker(id), after any calls of addMarker, leaves no marker and
\* no label of that id in the group of the markers, and leaves the objects
\* of other ids as they were.
C23_RemoveMarker ==
  [][call'.op = "removeMarker" =>
       /\ WithId(disp'.markers, call'.args[1]) = <<>>
       /\ WithoutId(disp'.markers, call'.args[1]) = WithoutId(disp.markers, call'.args[1])]_vars

\* The points <<path, index>> of the paths, and those nearest to pos.
AllPoints == { <<pi, pj>> : pi \in PathIndices, pj \in 0..(MaxN - 1) } \cap
             { pt \in PathIndices \X (0..(MaxN - 1)) : pt[2] < Paths[pt[1]].n }

NearestPoints(pos) ==
  { pt \in AllPoints :
      \A qt \in AllPoints :
        DistSq(pos, PathPoint(pt[1], pt[2])) <= DistSq(pos, PathPoint(qt[1], qt[2])) }

\* C24: a result of positionToPath is a point nearest to the position among
\* all points of all paths, and of several nearest points the one of the
\* lowest path index and then the lowest point index.
C24_NearestFirst ==
  (call.op = "positionToPath" /\ call.ret # <<>>) =>
    LET near == NearestPoints(call.args[1])
        pt == <<call.ret[1], call.ret[2]>>
    IN  /\ pt \in near
        /\ \A qt \in near : pt[1] < qt[1] \/ (pt[1] = qt[1] /\ pt[2] <= qt[2])

\* A result for a position with nearest points on both paths.
C24_Witness ==
  /\ call.op = "positionToPath" /\ call.ret # <<>>
  /\ \E pt, qt \in NearestPoints(call.args[1]) : pt[1] # qt[1]
  /\ call.ret[1] = 0

\* The sum of the lengths of the first k intervals of a line.
RECURSIVE LengthOfIntervals(_, _)
LengthOfIntervals(ivln, k) ==
  IF k = 0 THEN 0
  ELSE LengthOfIntervals(ivln, k - 1) + (ivln[k][2] - ivln[k][1] + 1)

\* The intervals j of line l of the map of path pi with column c in them.
IntervalsOf(pi, c, l) ==
  LET dom == Mapping(pi).object.domain
      ivln == dom.intvlines[l - dom.line1 + 1]
  IN  { j \in 1..Len(ivln) : c - dom.kol1 \in ivln[j][1]..ivln[j][2] }

\* C25: for integer x and y in the rectangle with column x - kol1 in
\* interval j = [c0, c1] of row r = y - line1, _getObjValue returns
\* values[value_line_indices[r] + (the lengths of the intervals of the row
\* before j) + (x - kol1 - c0)].
C25_ValueOffset ==
  (call.op = "getObjValue" /\ call.args[2][2] = 1 /\ call.args[3][2] = 1) =>
    LET pi == call.args[1]
        x == call.args[2][1]
        y == call.args[3][1]
        obj == Mapping(pi).object
        r == y - obj.domain.line1
    IN  InRectangle(pi, x, y) =>
          \A j \in IntervalsOf(pi, x, y) :
            LET ivln == obj.domain.intvlines[r + 1]
                offset == obj.values.value_line_indices[r + 1]
                            + LengthOfIntervals(ivln, j - 1)
                            + (x - obj.domain.kol1 - ivln[j][1])
            IN  call.ret = <<obj.values.values[offset + 1]>>

\* A value of the second interval of a row, at its second column.
C25_Witness ==
  /\ call.op = "getObjValue" /\ call.args[2][2] = 1 /\ call.args[3][2] = 1
  /\ InRectangle(call.args[1], call.args[2][1], call.args[3][1])
  /\ 2 \in IntervalsOf(call.args[1], call.args[2][1], call.args[3][1])
  /\ LET dom == Mapping(call.args[1]).object.domain
     IN  call.args[2][1] - dom.kol1
           = dom.intvlines[call.args[3][1] - dom.line1 + 1][2][1] + 1
  /\ call.ret # <<Undefined>>

\* The path index of a hit h on face f of the surface s: the mapping values
\* of the three vertices of the face, weighted by the barycentric
\* coordinates of the point of the hit, rounded down and clamped to the
\* current path.
InterpolatedIndex(h, s) ==
  LET f == h.faceIndex
      m == [j \in 1..3 |-> s.mapping[SurfaceGeometry.index[3 * f + j] + 1]]
      w == _baryCoords([j \in 1..3 |-> FaceVertex(f, j - 1)], h.point)
      sum == FracAdd(FracScale(m[1], w[1]),
                     FracAdd(FracScale(m[2], w[2]), FracScale(m[3], w[3])))
      n == Paths[curPath].n
  IN  IF FracFloor(sum) < 0 THEN 0
      ELSE IF FracFloor(sum) > n - 1 THEN n - 1 ELSE FracFloor(sum)

\* C26: the position of the entry of a hit on a triangle, not degenerate, of
\* a surface with a mapping is the point of the current path at the index
\* clamp(floor(w0 m0 + w1 m1 + w2 m2), 0, n - 1), m_j the mapping value of
\* vertex j of the triangle and w_j the barycentric weight of the hit point.
C26_AnatomyIndex ==
  (PickEvent /\ call.ret # <<>>) =>
    \A e \in EntriesOf(call.ret, {"ana"}) :
      LET h == FirstHit(call.args[2], {"ana"})
      IN  call.ret[4][e]
            = AsPosition(PathPoint(curPath, InterpolatedIndex(h, AnatomySurfaces[1])))


\* The hits of the hit list that _picker passes over.
IgnoredHits(hitlist) == HitsOf(hitlist, {"ignored"})

\* The result of the pick event with the hits of the hit list that are not
\* passed over: the arguments of the client function and the error.
PickWithoutIgnored(hitlist) ==
  _picker([type |-> "pick",
           hitlist |-> SubList(hitlist, (1..Len(hitlist)) \ IgnoredHits(hitlist), 1)],
          curPath)

\* C27: hits on an object whose name has an unrecognised type prefix or
\* fewer than 2 components, on an object without a name and on no object
\* are ignored hit by hit: the result of a pick event (whether the client
\* function is called, and the objects, types, names and positions it is
\* given) is that of the hit list without those hits, an error is raised
\* only if that hit list raises it, and none is raised when no hit is on a
\* degenerate triangle.
C27_IgnoredHits ==
  PickEvent =>
    /\ call.ret = PickWithoutIgnored(call.args[2]).fn
    /\ call.err = PickWithoutIgnored(call.args[2]).err
    /\ NoDegenerateHit(call.args[2]) => ~call.err

\* A pick event with a hit of each ignored kind among hits that resolve:
\* the first hit is ignored, the last resolves, the client function is
\* called and no error is raised.
C27_Witness ==
  /\ PickEvent
  /\ Len(call.args[2]) = MaxHits
  /\ \E i, j \in IgnoredHits(call.args[2]) :
       /\ i = 1
       /\ call.args[2][i].object # call.args[2][j].object
       /\ \E k \in 1..Len(call.args[2]) : j < k /\ Resolves(call.args[2][k])
  /\ call.ret # <<>>
  /\ ~call.err


\* The place in the table of the landmark with an id.
PlaceOf(lmid) == CHOOSE k \in 1..Len(landmarks) : landmarks[k].id = lmid

\* The matching pairs of the landmarks lm0 and lm1: the places <<li, ji>> of
\* a path id in the paths list of lm0 and in that of lm1.
MatchingPairs(lm0, lm1) ==
  { m \in (1..Len(lm0.paths)) \X (1..Len(lm1.paths)) : lm0.paths[m[1]] = lm1.paths[m[2]] }

\* The first matching pair in scan order: the paths of lm0 in order and,
\* for each of them, the paths of lm1 in order.
FirstMatchingPair(lm0, lm1) ==
  CHOOSE m \in MatchingPairs(lm0, lm1) :
    \A o \in MatchingPairs(lm0, lm1) :
      m[1] < o[1] \/ (m[1] = o[1] /\ m[2] <= o[2])

\* The path index and index given by the matching pair m and the fraction.
IndexOfPair(lm0, lm1, m, dst) ==
  LET pi == CHOOSE i \in PathIndices : Paths[i].id = lm0.paths[m[1]]
      i0 == lm0.position[m[1]]
      i1 == lm1.position[m[2]]
  IN  <<pi, Max(0, Min(i0 + FloorMul(i1 - i0, dst), Paths[pi].n - 1))>>

\* A call of indexFromLandmarkPair with two landmarks of the table that
\* have a matching pair.
PairCall ==
  /\ call.op = "indexOnPath"
  /\ \A k \in 1..2 : \E j \in 1..Len(landmarks) : landmarks[j].id = call.args[k]
  /\ MatchingPairs(landmarks[PlaceOf(call.args[1])],
                   landmarks[PlaceOf(call.args[2])]) # {}

\* C28 (as stated): with more than one matching pair, the path and the
\* positions i0, i1 used by indexFromLandmarkPair are those of the first
\* matching pair in scan order.
C28_FirstPair ==
  PairCall =>
    LET lm0 == landmarks[PlaceOf(call.args[1])]
        lm1 == landmarks[PlaceOf(call.args[2])]
    IN  /\ ~call.err
        /\ call.ret = IndexOfPair(lm0, lm1, FirstMatchingPair(lm0, lm1), call.args[3])

\* The path of the first matching pair occurs once in the paths of lm1.
OnceInSecond(lm0, lm1) ==
  LET m == FirstMatchingPair(lm0, lm1)
  IN  \A ji \in 1..Len(lm1.paths) : lm1.paths[ji] = lm0.paths[m[1]] => ji = m[2]

\* C28 (where the code agrees): the first matching pair is used when the
\* path of that pair occurs once in the paths list of the second landmark.
C28_FirstPairOnce ==
  PairCall =>
    LET lm0 == landmarks[PlaceOf(call.args[1])]
        lm1 == landmarks[PlaceOf(call.args[2])]
    IN  OnceInSecond(lm0, lm1) =>
          /\ ~call.err
          /\ call.ret = IndexOfPair(lm0, lm1, FirstMatchingPair(lm0, lm1), call.args[3])

\* The last matching pair of the first path of lm0 that matches: the pair
\* that the inner loop, which has no break, leaves in place.
LastOfFirstPath(lm0, lm1) ==
  CHOOSE m \in MatchingPairs(lm0, lm1) :
    \A o \in MatchingPairs(lm0, lm1) :
      m[1] < o[1] \/ (m[1] = o[1] /\ m[2] >= o[2])

\* C28 (what the code does): the pair used is, for the first path of the
\* first landmark that matches, its last match in the second landmark.
C28_LastOfFirstPath ==
  PairCall =>
    LET lm0 == landmarks[PlaceOf(call.args[1])]
        lm1 == landmarks[PlaceOf(call.args[2])]
    IN  /\ ~call.err
        /\ call.ret = IndexOfPair(lm0, lm1, LastOfFirstPath(lm0, lm1), call.args[3])


\* _createVisualisation has not run and post_load_fn has not been called.
NotCreated == load.created = 0 /\ load.called = 0

\* The loads whose file could not be loaded: those whose callback was not
\* run or ran the alert, and those handed to the callback of _loadSvg as null.
FailedLoads == LoadsIn("failed") \cup LoadsIn("null")

\* Within loadModels, whatever becomes of the loads as they are issued,
\* _createVisualisation has not run when _endLoad is reached.
NotBeforeEndLoad ==
  ~load.started =>
    \A o \in Outcomes(load.images) : LoadFrom(_startLoad(load), o, 1).created = 0

\* C29 (as stated): _createVisualisation is not run while a load issued by
\* loadModels is outstanding, nor before _endLoad is called, even when the
\* loads complete as they are issued; and if a load fails or does not
\* complete, _createVisualisation and post_load_fn are not run.
C29_LoadSafety ==
  /\ load.created > 0 => (load.started /\ LoadsIn("pending") = {})
  /\ NotBeforeEndLoad
  /\ (FailedLoads # {} \/ LoadsIn("pending") # {}) => NotCreated

\* C29 (where the code agrees): the same, for the failures after which
\* _postLoad is not called (a JSON file without status 200, an image with
\* an error, a callback that is never run).
C29_LoadSafetyNoCallback ==
  /\ load.created > 0 => (load.started /\ LoadsIn("pending") = {})
  /\ NotBeforeEndLoad
  /\ (LoadsIn("failed") # {} \/ LoadsIn("pending") # {}) => NotCreated

\* C29 (what the code does for an icon): an icon that cannot be loaded and
\* is handed to the callback of _loadSvg as null counts as loaded, and the
\* visualisation is created once when nothing else fails or is outstanding.
C29_SvgNullCounts ==
  (/\ load.started
   /\ LoadsIn("null") # {}
   /\ LoadsIn("failed") = {}
   /\ LoadsIn("pending") = {}) => CreatedOnce


\* C30 (as stated): a mouse up after a press of button 1 during which a
\* move panned the canvas does not call the client pick function, which is
\* called on mouse up only for presses during which nothing was panned;
\* after every mouse up the button is 0 and drag is false.
C30_NoPickAfterPan ==
  call.op = "mouseUp" =>
    /\ pointer.panned => call.ret = <<>>
    /\ pointer.button = 0 /\ ~pointer.drag

\* C30 (what the code does): the pick function is called on mouse up when
\* button 1 is down, there is a pick function and the pointer is not in the
\* drag state, which the last move may have ended; after every mouse up
\* the button is 0 and drag is false.
C30_PickUnlessDragging ==
  [][call'.op = "mouseUp" =>
       /\ (call'.ret # <<>>) = (pointer.button = 1 /\ ~pointer.drag /\ pointer.fn)
       /\ pointer'.button = 0 /\ ~pointer'.drag]_vars

\* The pick function has been called by the mouse up of a press during
\* which the canvas was panned.
C30_PickAfterPan ==
  call.op = "mouseUp" /\ pointer.panned /\ call.ret # <<>>

====
